---- MODULE Spec2Model ----
(***************************************************************************)
(* A model of the resume parsing and competency scoring pipeline           *)
(* (src/lib/resumeParser.ts, src/lib/competencyScorer.ts).                 *)
(*                                                                         *)
(* JavaScript strings are sequences of one-character strings.  JavaScript  *)
(* numbers that are not integers are exact rationals <<n, d>> in lowest    *)
(* terms with d > 0 (IEEE-754 rounding of the doubles is not modelled).    *)
(***************************************************************************)
EXTENDS Integers, Sequences, FiniteSets, TLC

VARIABLES
    pc,         \* "ready": a call is about to run; "done": it has returned
    op,         \* the function the current call is of
    args,       \* the arguments of the current call
    ret,        \* what the current call returned (None before it returns)
    lastIndex   \* EDUCATION_PATTERNS[i].regex.lastIndex, i \in 1..5

vars == <<pc, op, args, ret, lastIndex>>

None == [none |-> TRUE]

(***************************************************************************)
(* Bounds of the model.                                                    *)
(***************************************************************************)
MaxStrLen == 3

MaxSkills == 2

MaxRequired == 3

MaxPhrases == 2

MaxSoftSkills == 8

MaxLines == 2

MaxScore == 100

MaxGaps == 8

MaxYears == 6

MaxCandidates == 3

(***************************************************************************)
(* Numbers.                                                                *)
(***************************************************************************)
Min(a, b) == IF a < b THEN a ELSE b

Max(a, b) == IF a > b THEN a ELSE b

Abs(a) == IF a < 0 THEN -a ELSE a

\* the greatest common divisor of a >= 0 and b >= 0
GCD(a, b) ==
    LET gcd[x \in Nat, y \in Nat] == IF y = 0 THEN x ELSE gcd[y, x % y]
    IN  gcd[a, b]

\* the rational n/d (d > 0) in lowest terms
Rat(n, d) ==
    LET g == GCD(Abs(n), d)
    IN  IF n = 0 THEN <<0, 1>> ELSE <<n \div g, d \div g>>

RInt(n) == <<n, 1>>

RAdd(x, y) == Rat(x[1] * y[2] + y[1] * x[2], x[2] * y[2])

RSub(x, y) == Rat(x[1] * y[2] - y[1] * x[2], x[2] * y[2])

RMul(x, y) == Rat(x[1] * y[1], x[2] * y[2])

RLt(x, y) == x[1] * y[2] < y[1] * x[2]

RLe(x, y) == x[1] * y[2] <= y[1] * x[2]

\* Math.round: the integer nearest to x, halves rounded up (floor(x + 0.5))
MathRound(x) == (2 * x[1] + x[2]) \div (2 * x[2])

(***************************************************************************)
(* Strings.                                                                *)
(***************************************************************************)
\* the lower-case letter of each upper-case letter
LowerOf ==
    "A" :> "a" @@ "B" :> "b" @@ "C" :> "c" @@ "D" :> "d" @@ "E" :> "e"
    @@ "F" :> "f" @@ "G" :> "g" @@ "H" :> "h" @@ "I" :> "i" @@ "J" :> "j"
    @@ "K" :> "k" @@ "L" :> "l" @@ "M" :> "m" @@ "N" :> "n" @@ "O" :> "o"
    @@ "P" :> "p" @@ "Q" :> "q" @@ "R" :> "r" @@ "S" :> "s" @@ "T" :> "t"
    @@ "U" :> "u" @@ "V" :> "v" @@ "W" :> "w" @@ "X" :> "x" @@ "Y" :> "y"
    @@ "Z" :> "z"

Digits == {"0", "1", "2", "3", "4", "5", "6", "7", "8", "9"}

\* the characters the regular expression class \s and String.trim() take as white space
WhiteSpace == {" ", "\t", "\n"}

LowerChar(c) == IF c \in DOMAIN LowerOf THEN LowerOf[c] ELSE c

\* the function f on 1..n as the tuple <<f[1], ..., f[n]>>, its elements computed once
Tuple(f) == f \o <<>>

\* String.prototype.toLowerCase
ToLowerCase(s) == Tuple([i \in 1..Len(s) |-> LowerChar(s[i])])

\* String.prototype.trim
Trim(s) ==
    LET keep == {i \in 1..Len(s) : s[i] \notin WhiteSpace}
    IN  IF keep = {} THEN <<>>
        ELSE LET first == CHOOSE i \in keep : \A j \in keep : i <= j
                 last == CHOOSE i \in keep : \A j \in keep : j <= i
             IN  SubSeq(s, first, last)

\* whether sub occurs in s with its first character at position p (1-based)
OccursAt(s, sub, p) ==
    /\ p >= 1
    /\ p + Len(sub) - 1 <= Len(s)
    /\ \A k \in 1..Len(sub) : s[p + k - 1] = sub[k]

\* String.prototype.includes
Includes(s, sub) == \E p \in 1..(Len(s) + 1) : OccursAt(s, sub, p)

\* the strings over alphabet of length at most n
StringsUpTo(alphabet, n) == UNION {[1..k -> alphabet] : k \in 0..n}

(***************************************************************************)
(* competencyScorer.ts: the similarity matcher.                            *)
(***************************************************************************)

\* one iteration of the inner loop of getEditDistance, row i and column j,
\* from before = <<costs, lastValue>>: the two after it
\* (costs[j] of the code is costs[j + 1] here)
EditStep(s1, s2, i, j, before) ==
    LET costs == before[1]
        lastValue == before[2]
    IN  IF i = 0 THEN <<[costs EXCEPT ![j + 1] = j], lastValue>>
        ELSE IF j > 0
             THEN LET diag == costs[j]
                      newValue ==
                          IF s1[i] # s2[j]
                          THEN Min(Min(diag, lastValue), costs[j + 1]) + 1
                          ELSE diag
                  IN  <<[costs EXCEPT ![j] = lastValue], newValue>>
             ELSE before

\* the row i of the outer loop of getEditDistance, entered with the array
\* costs0: inner[j] is <<costs, lastValue>> after the iterations 0..j of the
\* inner loop, and the result is the array the row leaves
EditRow(s1, s2, i, costs0) ==
    LET inner[j \in -1..Len(s2)] ==
            IF j < 0 THEN <<costs0, i>> ELSE EditStep(s1, s2, i, j, inner[j - 1])
        r == inner[Len(s2)]
    IN  IF i > 0 THEN [r[1] EXCEPT ![Len(s2) + 1] = r[2]] ELSE r[1]

\* a distance that compares the strings position by position only
getEditDistance_Positional(s1, s2) ==
    Cardinality({k \in 1..Min(Len(s1), Len(s2)) : s1[k] # s2[k]})
        + Abs(Len(s1) - Len(s2))

\* outer[i] is the costs array after the rows 0..i (the array the rows 0..i-1
\* leave is computed before the row i is entered)
getEditDistance(s1, s2) ==
    LET outer[i \in -1..Len(s1)] ==
            IF i < 0 THEN [j \in 1..(Len(s2) + 1) |-> 0]
            ELSE CHOOSE after \in {EditRow(s1, s2, i, costs0) :
                                      costs0 \in {outer[i - 1]}} : TRUE
    IN  outer[Len(s1)][Len(s2) + 1]

\* the distance divided by the length of the shorter string
calculateSimilarity_DivShorter(str1, str2) ==
    LET s1 == Trim(ToLowerCase(str1))
        s2 == Trim(ToLowerCase(str2))
        longer == IF Len(s1) > Len(s2) THEN s1 ELSE s2
        shorter == IF Len(s1) > Len(s2) THEN s2 ELSE s1
    IN  IF s1 = s2 THEN RInt(1)
        ELSE IF Includes(s1, s2) \/ Includes(s2, s1) THEN Rat(85, 100)
        ELSE IF Len(longer) = 0 THEN RInt(1)
        ELSE RSub(RInt(1), Rat(getEditDistance(shorter, longer), Len(shorter)))

\* the containment rule tested in one direction only
calculateSimilarity_OneWay(str1, str2) ==
    LET s1 == Trim(ToLowerCase(str1))
        s2 == Trim(ToLowerCase(str2))
        longer == IF Len(s1) > Len(s2) THEN s1 ELSE s2
        shorter == IF Len(s1) > Len(s2) THEN s2 ELSE s1
    IN  IF s1 = s2 THEN RInt(1)
        ELSE IF Includes(s1, s2) THEN Rat(85, 100)
        ELSE IF Len(longer) = 0 THEN RInt(1)
        ELSE RSub(RInt(1), Rat(getEditDistance(shorter, longer), Len(longer)))

calculateSimilarity(str1, str2) ==
    LET s1 == Trim(ToLowerCase(str1))
        s2 == Trim(ToLowerCase(str2))
        longer == IF Len(s1) > Len(s2) THEN s1 ELSE s2
        shorter == IF Len(s1) > Len(s2) THEN s2 ELSE s1
    IN  IF s1 = s2 THEN RInt(1)
        ELSE IF Includes(s1, s2) \/ Includes(s2, s1) THEN Rat(85, 100)
        ELSE IF Len(longer) = 0 THEN RInt(1)
        ELSE RSub(RInt(1), Rat(getEditDistance(shorter, longer), Len(longer)))

(***************************************************************************)
(* Sequences.                                                              *)
(***************************************************************************)

\* Array.prototype.filter: the elements of seq whose index is in keep, in order
Filter(seq, keep) ==
    LET kept[i \in 0..Len(seq)] ==
            IF i = 0 THEN <<>>
            ELSE IF i \in keep THEN Append(kept[i - 1], seq[i]) ELSE kept[i - 1]
    IN  kept[Len(seq)]

\* Array.prototype.slice(0, n)
SliceTo(seq, n) == SubSeq(seq, 1, Min(n, Len(seq)))

\* the sequences over S of length at most n
SeqsUpTo(S, n) == UNION {[1..k -> S] : k \in 0..n}

(***************************************************************************)
(* competencyScorer.ts: the competency scorer.                             *)
(***************************************************************************)
PROFICIENCY_LEVELS_expert ==
    << <<"e", "x", "p", "e", "r", "t">>, <<"s", "e", "n", "i", "o", "r">>, <<"l", "e", "a", "d">>,
       <<"a", "r", "c", "h", "i", "t", "e", "c", "t">>, <<"1", "0", "+">>, <<"y", "e", "a", "r", "s">> >>

PROFICIENCY_LEVELS_advanced ==
    << <<"a", "d", "v", "a", "n", "c", "e", "d">>, <<"p", "r", "o", "f", "i", "c", "i", "e", "n", "t">>,
       <<"5", "-", "1", "0">>, <<"y", "e", "a", "r", "s">> >>

PROFICIENCY_LEVELS_intermediate ==
    << <<"i", "n", "t", "e", "r", "m", "e", "d", "i", "a", "t", "e">>, <<"c", "o", "m", "p", "e", "t", "e", "n", "t">>,
       <<"2", "-", "5">>, <<"y", "e", "a", "r", "s">> >>

PROFICIENCY_LEVELS_beginner ==
    << <<"b", "e", "g", "i", "n", "n", "e", "r">>, <<"b", "a", "s", "i", "c">>, <<"j", "u", "n", "i", "o", "r">>,
       <<"0", "-", "2">>, <<"y", "e", "a", "r", "s">> >>

\* the advanced keywords searched before the expert ones
inferProficiencyLevel_AdvancedFirst(skill) ==
    LET lower == ToLowerCase(skill)
        hit(keywords) == \E k \in 1..Len(keywords) : Includes(lower, keywords[k])
    IN  IF hit(PROFICIENCY_LEVELS_advanced) THEN "Advanced"
        ELSE IF hit(PROFICIENCY_LEVELS_expert) THEN "Expert"
        ELSE IF hit(PROFICIENCY_LEVELS_intermediate) THEN "Intermediate"
        ELSE "Beginner"

inferProficiencyLevel(skill) ==
    LET lower == ToLowerCase(skill)
        hit(keywords) == \E k \in 1..Len(keywords) : Includes(lower, keywords[k])
    IN  IF hit(PROFICIENCY_LEVELS_expert) THEN "Expert"
        ELSE IF hit(PROFICIENCY_LEVELS_advanced) THEN "Advanced"
        ELSE IF hit(PROFICIENCY_LEVELS_intermediate) THEN "Intermediate"
        ELSE "Beginner"

\* the entry pushed for a competency that no skill matched
GapEntry(required) ==
    [competency |-> required, extractedSkill |-> <<>>, confidenceScore |-> <<0, 1>>,
     proficiencyLevel |-> "Beginner", gap |-> TRUE]

\* the callback with >= 0.5 where the code accepts a similarity > 0.5
MatchStep_AtLeastHalf(required, extracted, best) ==
    LET similarity == calculateSimilarity(required, extracted.skill)
    IN  IF RLt(best[2], similarity) /\ RLe(<<1, 2>>, similarity)
        THEN <<[competency |-> required,
                extractedSkill |-> extracted.skill,
                confidenceScore |-> RMul(similarity, extracted.confidence),
                proficiencyLevel |-> inferProficiencyLevel(extracted.skill),
                gap |-> FALSE],
               similarity>>
        ELSE best

\* one call of the callback of extractedSkills.forEach in matchCompetencies,
\* from best = <<bestMatch, bestSimilarity>> (bestMatch is None while it is null)
MatchStep(required, extracted, best) ==
    LET similarity == calculateSimilarity(required, extracted.skill)
    IN  IF RLt(best[2], similarity) /\ RLt(<<1, 2>>, similarity)
        THEN <<[competency |-> required,
                extractedSkill |-> extracted.skill,
                confidenceScore |-> RMul(similarity, extracted.confidence),
                proficiencyLevel |-> inferProficiencyLevel(extracted.skill),
                gap |-> FALSE],
               similarity>>
        ELSE best

\* the body of requiredCompetencies.forEach: the entry pushed for one competency
\* (best[k] is <<bestMatch, bestSimilarity>> after the skills 1..k)
MatchOne(required, extractedSkills) ==
    LET best[k \in 0..Len(extractedSkills)] ==
            IF k = 0 THEN <<None, <<0, 1>>>>
            ELSE MatchStep(required, extractedSkills[k], best[k - 1])
        bestMatch == best[Len(extractedSkills)][1]
    IN  IF bestMatch # None THEN bestMatch ELSE GapEntry(required)

\* m put into the sorted list behind every entry whose score is not smaller
InsertByConfidence(sorted, m) ==
    LET ahead == Cardinality({k \in 1..Len(sorted) :
                                 ~RLt(sorted[k].confidenceScore, m.confidenceScore)})
    IN  SubSeq(sorted, 1, ahead) \o <<m>> \o SubSeq(sorted, ahead + 1, Len(sorted))

\* the matches returned in the order they were pushed
SortByConfidence_Unsorted(matches) == matches

\* Array.prototype.sort with the comparator (a, b) => b.confidenceScore - a.confidenceScore:
\* a stable sort by descending score (sorted[k] holds the entries 1..k)
SortByConfidence(matches) ==
    LET sorted[k \in 0..Len(matches)] ==
            IF k = 0 THEN <<>> ELSE InsertByConfidence(sorted[k - 1], matches[k])
    IN  sorted[Len(matches)]

\* a competency that matched nothing is left out
matchCompetencies_DropGaps(extractedSkills, requiredCompetencies) ==
    LET pushed == Tuple([r \in 1..Len(requiredCompetencies) |->
                            MatchOne(requiredCompetencies[r], extractedSkills)])
    IN  SortByConfidence(Filter(pushed, {r \in 1..Len(pushed) : ~pushed[r].gap}))

matchCompetencies(extractedSkills, requiredCompetencies) ==
    LET pushed == Tuple([r \in 1..Len(requiredCompetencies) |->
                            MatchOne(requiredCompetencies[r], extractedSkills)])
    IN  SortByConfidence(pushed)

identifySkillGaps(competencyMatches, requiredCompetencies) ==
    LET gaps == Filter(competencyMatches,
                       {k \in 1..Len(competencyMatches) : competencyMatches[k].gap})
    IN  Tuple([k \in 1..Len(gaps) |-> gaps[k].competency])

\* the characters of a proficiency level, as a template literal prints it
LevelText(level) ==
    CASE level = "Beginner" -> <<"B", "e", "g", "i", "n", "n", "e", "r">>
      [] level = "Intermediate" -> <<"I", "n", "t", "e", "r", "m", "e", "d", "i", "a", "t", "e">>
      [] level = "Advanced" -> <<"A", "d", "v", "a", "n", "c", "e", "d">>
      [] level = "Expert" -> <<"E", "x", "p", "e", "r", "t">>

\* the filter written >= 0.7 where the code has > 0.7
identifyStrengths_AtLeast(competencyMatches) ==
    LET strong == Filter(competencyMatches,
                         {k \in 1..Len(competencyMatches) :
                              /\ ~competencyMatches[k].gap
                              /\ RLe(<<7, 10>>, competencyMatches[k].confidenceScore)})
        top == SliceTo(strong, 5)
    IN  Tuple([k \in 1..Len(top) |->
                  top[k].extractedSkill \o <<" ", "(">>
                      \o LevelText(top[k].proficiencyLevel) \o <<")">>])

identifyStrengths(competencyMatches) ==
    LET strong == Filter(competencyMatches,
                         {k \in 1..Len(competencyMatches) :
                              /\ ~competencyMatches[k].gap
                              /\ RLt(<<7, 10>>, competencyMatches[k].confidenceScore)})
        top == SliceTo(strong, 5)
    IN  Tuple([k \in 1..Len(top) |->
                  top[k].extractedSkill \o <<" ", "(">>
                      \o LevelText(top[k].proficiencyLevel) \o <<")">>])

\* the soft-skill bonus added without its cap of 15
assessCulturalFit_UncappedSoft(resumeText, extractedSkills) ==
    LET text == ToLowerCase(resumeText)
        any(words) == \E k \in 1..Len(words) : Includes(text, words[k])
        softSkills == Filter(extractedSkills,
                             {k \in 1..Len(extractedSkills) : extractedSkills[k].category = "soft"})
        fitScore ==
            50
            + (IF any(<< <<"a", "g", "i", "l", "e">>, <<"s", "c", "r", "u", "m">>, <<"s", "p", "r", "i", "n", "t">> >>) THEN 10 ELSE 0)
            + (IF any(<< <<"c", "o", "l", "l", "a", "b", "o", "r", "a", "t", "e">>, <<"t", "e", "a", "m", "w", "o", "r", "k">>, <<"c", "r", "o", "s", "s", "-", "f", "u", "n", "c", "t", "i", "o", "n", "a", "l">> >>) THEN 10 ELSE 0)
            + (IF any(<< <<"i", "n", "n", "o", "v", "a", "t", "i", "o", "n">>, <<"c", "r", "e", "a", "t", "i", "v", "e">> >>) THEN 5 ELSE 0)
            + (IF any(<< <<"l", "e", "a", "d", "e", "r", "s", "h", "i", "p">>, <<"m", "e", "n", "t", "o", "r">> >>) THEN 8 ELSE 0)
            + Len(softSkills) * 2
    IN  Min(100, fitScore)

\* 10 points for leadership or mentor where the code gives 8
assessCulturalFit_LeadershipTen(resumeText, extractedSkills) ==
    LET text == ToLowerCase(resumeText)
        any(words) == \E k \in 1..Len(words) : Includes(text, words[k])
        softSkills == Filter(extractedSkills,
                             {k \in 1..Len(extractedSkills) : extractedSkills[k].category = "soft"})
        fitScore ==
            50
            + (IF any(<< <<"a", "g", "i", "l", "e">>, <<"s", "c", "r", "u", "m">>, <<"s", "p", "r", "i", "n", "t">> >>) THEN 10 ELSE 0)
            + (IF any(<< <<"c", "o", "l", "l", "a", "b", "o", "r", "a", "t", "e">>, <<"t", "e", "a", "m", "w", "o", "r", "k">>, <<"c", "r", "o", "s", "s", "-", "f", "u", "n", "c", "t", "i", "o", "n", "a", "l">> >>) THEN 10 ELSE 0)
            + (IF any(<< <<"i", "n", "n", "o", "v", "a", "t", "i", "o", "n">>, <<"c", "r", "e", "a", "t", "i", "v", "e">> >>) THEN 5 ELSE 0)
            + (IF any(<< <<"l", "e", "a", "d", "e", "r", "s", "h", "i", "p">>, <<"m", "e", "n", "t", "o", "r">> >>) THEN 10 ELSE 0)
            + Min(Len(softSkills) * 2, 15)
    IN  Min(100, fitScore)

assessCulturalFit(resumeText, extractedSkills) ==
    LET text == ToLowerCase(resumeText)
        any(words) == \E k \in 1..Len(words) : Includes(text, words[k])
        softSkills == Filter(extractedSkills,
                             {k \in 1..Len(extractedSkills) : extractedSkills[k].category = "soft"})
        fitScore ==
            50
            + (IF any(<< <<"a", "g", "i", "l", "e">>, <<"s", "c", "r", "u", "m">>, <<"s", "p", "r", "i", "n", "t">> >>) THEN 10 ELSE 0)
            + (IF any(<< <<"c", "o", "l", "l", "a", "b", "o", "r", "a", "t", "e">>, <<"t", "e", "a", "m", "w", "o", "r", "k">>, <<"c", "r", "o", "s", "s", "-", "f", "u", "n", "c", "t", "i", "o", "n", "a", "l">> >>) THEN 10 ELSE 0)
            + (IF any(<< <<"i", "n", "n", "o", "v", "a", "t", "i", "o", "n">>, <<"c", "r", "e", "a", "t", "i", "v", "e">> >>) THEN 5 ELSE 0)
            + (IF any(<< <<"l", "e", "a", "d", "e", "r", "s", "h", "i", "p">>, <<"m", "e", "n", "t", "o", "r">> >>) THEN 8 ELSE 0)
            + Min(Len(softSkills) * 2, 15)
    IN  Min(100, fitScore)

\* competencyMatches.reduce((sum, m) => sum + m.confidenceScore, 0)
SumConfidence(competencyMatches) ==
    LET sum[k \in 0..Len(competencyMatches)] ==
            IF k = 0 THEN <<0, 1>>
            ELSE RAdd(sum[k - 1], competencyMatches[k].confidenceScore)
    IN  sum[Len(competencyMatches)]

\* the confidence averaged over the matched entries instead of all required ones
calculateOverallFitScore_AvgOverMatched(competencyMatches, totalRequired) ==
    IF totalRequired = 0 THEN 50
    ELSE LET matchedCount ==
                 Cardinality({k \in 1..Len(competencyMatches) : ~competencyMatches[k].gap})
             confidenceAvg ==
                 IF matchedCount = 0 THEN <<0, 1>>
                 ELSE RMul(SumConfidence(competencyMatches), <<1, matchedCount>>)
             matchPercentage == RMul(Rat(matchedCount, totalRequired), <<100, 1>>)
             confidenceScore == RMul(confidenceAvg, <<100, 1>>)
         IN  MathRound(RAdd(RMul(matchPercentage, <<6, 10>>),
                            RMul(confidenceScore, <<4, 10>>)))

\* the weighted sum returned without the 0.6 and 0.4 weights
calculateOverallFitScore_Unweighted(competencyMatches, totalRequired) ==
    IF totalRequired = 0 THEN 50
    ELSE LET matchedCount ==
                 Cardinality({k \in 1..Len(competencyMatches) : ~competencyMatches[k].gap})
             confidenceAvg ==
                 RMul(SumConfidence(competencyMatches), <<1, totalRequired>>)
             matchPercentage == RMul(Rat(matchedCount, totalRequired), <<100, 1>>)
             confidenceScore == RMul(confidenceAvg, <<100, 1>>)
         IN  MathRound(RAdd(matchPercentage, confidenceScore))

\* nothing required counted as everything matched: 100 where the code returns 50
calculateOverallFitScore_EmptyIsFull(competencyMatches, totalRequired) ==
    IF totalRequired = 0 THEN 100
    ELSE LET matchedCount ==
                 Cardinality({k \in 1..Len(competencyMatches) : ~competencyMatches[k].gap})
             confidenceAvg ==
                 RMul(SumConfidence(competencyMatches), <<1, totalRequired>>)
             matchPercentage == RMul(Rat(matchedCount, totalRequired), <<100, 1>>)
             confidenceScore == RMul(confidenceAvg, <<100, 1>>)
         IN  MathRound(RAdd(RMul(matchPercentage, <<6, 10>>),
                            RMul(confidenceScore, <<4, 10>>)))

calculateOverallFitScore(competencyMatches, totalRequired) ==
    IF totalRequired = 0 THEN 50
    ELSE LET matchedCount ==
                 Cardinality({k \in 1..Len(competencyMatches) : ~competencyMatches[k].gap})
             confidenceAvg ==
                 RMul(SumConfidence(competencyMatches), <<1, totalRequired>>)
             matchPercentage == RMul(Rat(matchedCount, totalRequired), <<100, 1>>)
             confidenceScore == RMul(confidenceAvg, <<100, 1>>)
         IN  MathRound(RAdd(RMul(matchPercentage, <<6, 10>>),
                            RMul(confidenceScore, <<4, 10>>)))

\* calculateRankingScore without the Math.max(0, ...) of the gap component
calculateRankingScore_NoFloor(overallFit, culturalFit, gapCount) ==
    LET fitComponent == RMul(<<overallFit, 1>>, <<1, 2>>)
        culturalComponent == RMul(<<culturalFit, 1>>, <<3, 10>>)
        gapFactor == RMul(RSub(<<1, 1>>, RMul(<<gapCount, 1>>, <<15, 100>>)), <<100, 1>>)
        gapComponent == RMul(gapFactor, <<2, 10>>)
    IN  MathRound(RAdd(RAdd(fitComponent, culturalComponent), gapComponent))

calculateRankingScore(overallFit, culturalFit, gapCount) ==
    LET fitComponent == RMul(<<overallFit, 1>>, <<1, 2>>)
        culturalComponent == RMul(<<culturalFit, 1>>, <<3, 10>>)
        gapFactor == RMul(RSub(<<1, 1>>, RMul(<<gapCount, 1>>, <<15, 100>>)), <<100, 1>>)
        gapComponent ==
            RMul(IF RLt(gapFactor, <<0, 1>>) THEN <<0, 1>> ELSE gapFactor, <<2, 10>>)
    IN  MathRound(RAdd(RAdd(fitComponent, culturalComponent), gapComponent))

\* generateRecommendations with >= where the code compares the score with >
generateRecommendations_AtLeast(overallFitScore, skillGaps, culturalFit) ==
    IF overallFitScore >= 80 /\ culturalFit > 75
    THEN "Highly Recommended - Schedule Interview"
    ELSE IF overallFitScore >= 65 /\ Len(skillGaps) <= 2
    THEN "Recommended - Consider for Technical Round"
    ELSE IF overallFitScore >= 50
    THEN "Potential Fit - Request Additional Info"
    ELSE IF Len(skillGaps) > 5
    THEN "Requires Training - Consider for Entry Level"
    ELSE "Not Recommended - Skill Gap Too Large"

generateRecommendations(overallFitScore, skillGaps, culturalFit) ==
    IF overallFitScore > 80 /\ culturalFit > 75
    THEN "Highly Recommended - Schedule Interview"
    ELSE IF overallFitScore > 65 /\ Len(skillGaps) <= 2
    THEN "Recommended - Consider for Technical Round"
    ELSE IF overallFitScore > 50
    THEN "Potential Fit - Request Additional Info"
    ELSE IF Len(skillGaps) > 5
    THEN "Requires Training - Consider for Entry Level"
    ELSE "Not Recommended - Skill Gap Too Large"

\* the ScoringResult scoreCompetencies returns, from the values of its constants
\* competencyMatches, skillGaps, strengths, culturalFitIndex and overallFitScore
ScoringResult(competencyMatches, skillGaps, strengths, culturalFitIndex, overallFitScore) ==
    [overallFitScore |-> overallFitScore,
     rankingScore |->
         calculateRankingScore(overallFitScore, culturalFitIndex, Len(skillGaps)),
     competencyMatches |-> competencyMatches,
     skillGaps |-> skillGaps,
     strengths |-> strengths,
     recommendations |->
         generateRecommendations(overallFitScore, skillGaps, culturalFitIndex),
     culturalFitIndex |-> culturalFitIndex]

\* scoreCompetencies from its constant competencyMatches on
ScoreMatches(competencyMatches, extractedSkills, requiredCompetencies, resumeText) ==
    ScoringResult(competencyMatches,
                  identifySkillGaps(competencyMatches, requiredCompetencies),
                  identifyStrengths(competencyMatches),
                  assessCulturalFit(resumeText, extractedSkills),
                  calculateOverallFitScore(competencyMatches, Len(requiredCompetencies)))

scoreCompetencies(extractedSkills, requiredCompetencies, resumeText) ==
    ScoreMatches(matchCompetencies(extractedSkills, requiredCompetencies),
                 extractedSkills, requiredCompetencies, resumeText)

\* candidate put into the sorted array behind every entry whose rankingScore is
\* not smaller
InsertByRankingScore(sorted, candidate) ==
    LET ahead == Cardinality({k \in 1..Len(sorted) :
                                 sorted[k].scoringResult.rankingScore
                                     >= candidate.scoringResult.rankingScore})
    IN  SubSeq(sorted, 1, ahead) \o <<candidate>> \o SubSeq(sorted, ahead + 1, Len(sorted))

\* the comparator written a - b: the array sorted by ascending rankingScore
SortByRankingScore_Ascending(candidates) ==
    LET sorted[k \in 0..Len(candidates)] ==
            IF k = 0 THEN <<>>
            ELSE LET ahead == Cardinality({j \in 1..(k - 1) :
                                  sorted[k - 1][j].scoringResult.rankingScore
                                      <= candidates[k].scoringResult.rankingScore})
                 IN  SubSeq(sorted[k - 1], 1, ahead) \o <<candidates[k]>>
                         \o SubSeq(sorted[k - 1], ahead + 1, k - 1)
    IN  sorted[Len(candidates)]

\* Array.prototype.sort with the comparator
\* (a, b) => b.scoringResult.rankingScore - a.scoringResult.rankingScore:
\* what the array holds after it was sorted in place, stably, by descending
\* rankingScore (sorted[k] holds the entries 1..k)
SortByRankingScore(candidates) ==
    LET sorted[k \in 0..Len(candidates)] ==
            IF k = 0 THEN <<>> ELSE InsertByRankingScore(sorted[k - 1], candidates[k])
    IN  sorted[Len(candidates)]

\* .map((candidate, index) => ({ ...candidate, rank: index + 1 })): a new array
\* of new objects
WithRanks(candidates) ==
    Tuple([index \in 1..Len(candidates) |->
              [id |-> candidates[index].id,
               scoringResult |-> candidates[index].scoringResult,
               rank |-> index]])

\* rankCandidates: candidates is what the array passed holds when the call
\* returns (sort returns the array it was called on), returned is the array
\* the call returns
rankCandidates(candidates) ==
    [candidates |-> SortByRankingScore(candidates),
     returned |-> WithRanks(SortByRankingScore(candidates))]

\* generateCulturalFitNarrative with > where the code compares with >=
generateCulturalFitNarrative_Above(culturalFitIndex) ==
    IF culturalFitIndex > 75 THEN "High"
    ELSE IF culturalFitIndex > 50 THEN "Medium"
    ELSE "Low"

generateCulturalFitNarrative(culturalFitIndex) ==
    IF culturalFitIndex >= 75 THEN "High"
    ELSE IF culturalFitIndex >= 50 THEN "Medium"
    ELSE "Low"

(***************************************************************************)
(* generateSuccessPrediction compares a sum of products with whole         *)
(* numbers, so its numbers are binary64 (IEEE 754 double) values, as the   *)
(* numbers of the program are.  A value v with 0 <= v < 128 is written as  *)
(* <<i, f1, f2, f3, f4>> with v = i + f1/Limb + f2/Limb^2 + f3/Limb^3 +    *)
(* f4/Limb^4: 60 binary places, enough for every binary64 value from 1/8   *)
(* to 128 and for every exact product and sum below.                       *)
(***************************************************************************)
Limb == 32768

\* 2^t
Pow2(t) ==
    LET p[k \in 0..15] == IF k = 0 THEN 1 ELSE 2 * p[k - 1]
    IN  p[t]

\* the literals 0.6 and 0.4: the binary64 values nearest to 6/10 and 4/10
Binary64_0_6 == <<0, 19660, 26214, 13107, 6528>>

Binary64_0_4 == <<0, 13107, 6553, 19660, 26240>>

\* x with every limb brought below Limb, the carries moved up
Carry(x) ==
    LET c[k \in 2..6] == IF k = 6 THEN 0 ELSE (x[k] + c[k + 1]) \div Limb
    IN  Tuple([k \in 1..5 |-> IF k = 1 THEN x[1] + c[2]
                                       ELSE (x[k] + c[k + 1]) % Limb])

\* the exact product of the whole number n and x, the exact sum of x and y
ExactTimes(n, x) == Carry([k \in 1..5 |-> n * x[k]])

ExactPlus(x, y) == Carry([k \in 1..5 |-> x[k] + y[k]])

\* the e with 2^e <= x < 2^(e+1), for x > 0
Exponent(x) ==
    IF x[1] >= 1
    THEN CHOOSE e \in 0..15 : Pow2(e) <= x[1] /\ (e = 15 \/ x[1] < Pow2(e + 1))
    ELSE (CHOOSE e \in 0..14 : Pow2(e) <= x[2] /\ x[2] < Pow2(e + 1)) - 15

\* x, of which sticky says whether binary places beyond the 60 were cut off,
\* rounded to a multiple of ulp / Limb^4: to the nearest, a tie to the even one
RoundToUlp(x, ulp, sticky) ==
    LET rest == x[5] % ulp
        up == \/ 2 * rest > ulp
              \/ 2 * rest = ulp /\ (sticky \/ (x[5] \div ulp) % 2 = 1)
    IN  Carry([x EXCEPT ![5] = x[5] - rest + (IF up THEN ulp ELSE 0)])

\* the binary64 value of an exact result: 53 significant bits kept, so 52 - e
\* binary places for a value from 2^e on
Round53(x, sticky) ==
    IF x = <<0, 0, 0, 0, 0>> \/ Exponent(x) + 8 < 1
    THEN x
    ELSE RoundToUlp(x, Pow2(Exponent(x) + 8), sticky)

\* n * x and x + y as the program computes them
Times(n, x) == Round53(ExactTimes(n, x), FALSE)

Plus(x, y) == Round53(ExactPlus(x, y), FALSE)

\* yearsExperience / 5 for a whole number of years: the quotient by long
\* division (rest[k] is what is left after limb k), then rounded
DividedBy5(yearsExperience) ==
    LET rest[k \in 1..5] ==
            IF k = 1 THEN yearsExperience % 5 ELSE (rest[k - 1] * Limb) % 5
    IN  Round53(Tuple([k \in 1..5 |-> IF k = 1 THEN yearsExperience \div 5
                                               ELSE (rest[k - 1] * Limb) \div 5]),
                rest[5] # 0)

\* Math.min(x, 1)
MinWith1(x) == IF x[1] >= 1 THEN <<1, 0, 0, 0, 0>> ELSE x

combinedScore(overallFitScore, culturalFitIndex) ==
    Plus(Times(overallFitScore, Binary64_0_6), Times(culturalFitIndex, Binary64_0_4))

experienceFactor(yearsExperience) == Times(20, MinWith1(DividedBy5(yearsExperience)))

\* the label of finalScore: finalScore >= n for a whole number n is whether
\* finalScore reaches n in its whole part
SuccessLabel(finalScore) ==
    IF finalScore[1] >= 85 THEN "Highly Likely"
    ELSE IF finalScore[1] >= 70 THEN "Likely"
    ELSE IF finalScore[1] >= 50 THEN "Possible"
    ELSE "Unlikely"

generateSuccessPrediction(overallFitScore, culturalFitIndex, yearsExperience) ==
    SuccessLabel(Plus(combinedScore(overallFitScore, culturalFitIndex),
                      experienceFactor(yearsExperience)))

(***************************************************************************)
(* resumeParser.ts: regular expressions.  An offset into a string is the   *)
(* number of characters before it, as in RegExp.lastIndex.  The characters *)
(* outside ASCII are written by their code point: "U+2022" is the bullet   *)
(* and "U+2013" the en dash.                                               *)
(***************************************************************************)
Letters == DOMAIN LowerOf \cup {LowerOf[c] : c \in DOMAIN LowerOf}

\* the class \w
WordChars == Letters \cup Digits \cup {"_"}

DigitValue ==
    "0" :> 0 @@ "1" :> 1 @@ "2" :> 2 @@ "3" :> 3 @@ "4" :> 4
    @@ "5" :> 5 @@ "6" :> 6 @@ "7" :> 7 @@ "8" :> 8 @@ "9" :> 9

\* parseInt of a string of digits
ParseInt(s) ==
    LET value[k \in 0..Len(s)] ==
            IF k = 0 THEN 0 ELSE value[k - 1] * 10 + DigitValue[s[k]]
    IN  value[Len(s)]

\* the characters of s between the offsets a and b
Slice(s, a, b) == SubSeq(s, a + 1, b)

\* whether the characters of s between the offsets a and b are all of class
AllIn(s, a, b, class) == \A k \in (a + 1)..b : s[k] \in class

\* the offset where a greedy run of at most most characters of class ends,
\* started at offset a
RunEnd(s, a, class, most) ==
    LET limit == Min(Len(s), a + most)
        stops == {b \in a..limit : b = limit \/ s[b + 1] \notin class}
    IN  CHOOSE b \in stops : \A c \in stops : b <= c

\* the assertion \b at offset b
WordBoundary(s, b) ==
    LET before == b >= 1 /\ s[b] \in WordChars
        after == b < Len(s) /\ s[b + 1] \in WordChars
    IN  before # after

\* whether the word (in lower case) stands at offset a of s, whatever the case
WordAt(s, word, a) ==
    /\ a + Len(word) <= Len(s)
    /\ \A k \in 1..Len(word) : LowerChar(s[a + k]) = word[k]

\* the first of the words (an alternation, tried in order) that stands at
\* offset a, 0 when none does
FirstWordAt(s, words, a) ==
    LET standing == {w \in 1..Len(words) : WordAt(s, words[w], a)}
    IN  IF standing = {} THEN 0 ELSE CHOOSE w \in standing : \A v \in standing : w <= v

\* the smallest element of a non-empty set of integers, and the largest
Least(S) == CHOOSE x \in S : \A y \in S : x <= y

Greatest(S) == CHOOSE x \in S : \A y \in S : y <= x

\* String.prototype.split('\n')
SplitLines(text) ==
    LET breaks == {k \in 1..Len(text) : text[k] = "\n"}
        break(n) == IF n = 0 THEN 0
                    ELSE IF n > Cardinality(breaks) THEN Len(text) + 1
                    ELSE CHOOSE k \in breaks : Cardinality({j \in breaks : j <= k}) = n
    IN  Tuple([n \in 1..(Cardinality(breaks) + 1) |->
                  SubSeq(text, break(n - 1) + 1, break(n) - 1)])

\* Array.prototype.join
Join(parts, separator) ==
    LET joined[k \in 0..Len(parts)] ==
            IF k = 0 THEN <<>>
            ELSE IF k = 1 THEN parts[1]
            ELSE joined[k - 1] \o separator \o parts[k]
    IN  joined[Len(parts)]

\* the decimal digits of the integer n >= 0, as a template literal prints it
NumberText(n) ==
    LET DigitText == <<"0", "1", "2", "3", "4", "5", "6", "7", "8", "9">>
        text[m \in 0..n] ==
            IF m < 10 THEN <<DigitText[m + 1]>>
            ELSE Append(text[m \div 10], DigitText[(m % 10) + 1])
    IN  text[n]

(***************************************************************************)
(* resumeParser.ts: skills.                                                *)
(***************************************************************************)
TECHNICAL_KEYWORDS ==
    << <<"R", "e", "a", "c", "t">>, <<"N", "o", "d", "e", ".", "j", "s">>, <<"P", "y", "t", "h", "o", "n">>, <<"J", "a", "v", "a", "S", "c", "r", "i", "p", "t">>, <<"T", "y", "p", "e", "S", "c", "r", "i", "p", "t">>, <<"J", "a", "v", "a">>,
       <<"C", "+", "+">>, <<"S", "Q", "L">>, <<"M", "o", "n", "g", "o", "D", "B">>, <<"A", "W", "S">>, <<"A", "z", "u", "r", "e">>, <<"D", "o", "c", "k", "e", "r">>, <<"K", "u", "b", "e", "r", "n", "e", "t", "e", "s">>,
       <<"G", "i", "t">>, <<"R", "E", "S", "T", " ", "A", "P", "I">>, <<"G", "r", "a", "p", "h", "Q", "L">>, <<"M", "a", "c", "h", "i", "n", "e", " ", "L", "e", "a", "r", "n", "i", "n", "g">>, <<"D", "a", "t", "a", " ", "S", "c", "i", "e", "n", "c", "e">>,
       <<"T", "e", "n", "s", "o", "r", "F", "l", "o", "w">>, <<"P", "y", "T", "o", "r", "c", "h">>, <<"B", "E", "R", "T">>, <<"N", "L", "P">>, <<"D", "e", "e", "p", " ", "L", "e", "a", "r", "n", "i", "n", "g">>, <<"V", "u", "e", ".", "j", "s">>,
       <<"A", "n", "g", "u", "l", "a", "r">>, <<"E", "x", "p", "r", "e", "s", "s">>, <<"D", "j", "a", "n", "g", "o">>, <<"F", "l", "a", "s", "k">>, <<"S", "p", "r", "i", "n", "g", " ", "B", "o", "o", "t">>,
       <<"P", "o", "s", "t", "g", "r", "e", "S", "Q", "L">>, <<"F", "i", "r", "e", "b", "a", "s", "e">>, <<"S", "u", "p", "a", "b", "a", "s", "e">>, <<"C", "I", "/", "C", "D">>, <<"D", "e", "v", "O", "p", "s">>, <<"L", "i", "n", "u", "x">>,
       <<"A", "g", "i", "l", "e">>, <<"S", "c", "r", "u", "m">>, <<"J", "I", "R", "A">>, <<"F", "i", "g", "m", "a">>, <<"U", "I", "/", "U", "X">> >>

SOFT_KEYWORDS ==
    << <<"L", "e", "a", "d", "e", "r", "s", "h", "i", "p">>, <<"C", "o", "m", "m", "u", "n", "i", "c", "a", "t", "i", "o", "n">>, <<"P", "r", "o", "b", "l", "e", "m", " ", "S", "o", "l", "v", "i", "n", "g">>, <<"T", "e", "a", "m", "w", "o", "r", "k">>,
       <<"A", "d", "a", "p", "t", "a", "b", "i", "l", "i", "t", "y">>, <<"C", "r", "i", "t", "i", "c", "a", "l", " ", "T", "h", "i", "n", "k", "i", "n", "g">>, <<"T", "i", "m", "e", " ", "M", "a", "n", "a", "g", "e", "m", "e", "n", "t">>,
       <<"C", "r", "e", "a", "t", "i", "v", "i", "t", "y">>, <<"A", "n", "a", "l", "y", "t", "i", "c", "a", "l">>, <<"S", "t", "r", "a", "t", "e", "g", "i", "c">>, <<"N", "e", "g", "o", "t", "i", "a", "t", "i", "o", "n">>,
       <<"M", "e", "n", "t", "o", "r", "i", "n", "g">>, <<"P", "r", "o", "j", "e", "c", "t", " ", "M", "a", "n", "a", "g", "e", "m", "e", "n", "t">>, <<"D", "e", "c", "i", "s", "i", "o", "n", " ", "M", "a", "k", "i", "n", "g">>,
       <<"C", "o", "l", "l", "a", "b", "o", "r", "a", "t", "i", "o", "n">>, <<"A", "t", "t", "e", "n", "t", "i", "o", "n", " ", "t", "o", " ", "D", "e", "t", "a", "i", "l">>, <<"R", "e", "l", "i", "a", "b", "i", "l", "i", "t", "y">>,
       <<"W", "o", "r", "k", " ", "E", "t", "h", "i", "c">>, <<"F", "l", "e", "x", "i", "b", "i", "l", "i", "t", "y">>, <<"I", "n", "n", "o", "v", "a", "t", "i", "o", "n">> >>

\* the pattern `\\b${skill.toLowerCase()}\\b` handed to new RegExp
KeywordSource(skill) == <<"\\", "b">> \o ToLowerCase(skill) \o <<"\\", "b">>

\* whether new RegExp(source, 'gi') throws a SyntaxError (nothing to repeat):
\* a quantifier + at the start of the pattern, behind another + or behind the
\* assertion \b.  The keywords hold no other quantifier, bracket or brace.
RegExpSyntaxError(source) ==
    \E p \in 1..Len(source) :
        /\ source[p] = "+"
        /\ \/ p = 1
           \/ source[p - 1] = "+"
           \/ (p >= 3 /\ source[p - 2] = "\\" /\ source[p - 1] = "b")

\* whether the pattern of a keyword without quantifier matches at offset a:
\* "." takes any character but a line break, any other character itself
\* whatever its case, and \b stands on both sides
KeywordAt(text, keyword, a) ==
    /\ a + Len(keyword) <= Len(text)
    /\ \A k \in 1..Len(keyword) :
           IF keyword[k] = "." THEN text[a + k] # "\n"
           ELSE LowerChar(text[a + k]) = keyword[k]
    /\ WordBoundary(text, a)
    /\ WordBoundary(text, a + Len(keyword))

\* regex.test(processedText) on the regex just built (its lastIndex is 0)
KeywordTest(text, keyword) == \E a \in 0..Len(text) : KeywordAt(text, keyword, a)

\* sort((a, b) => b.confidence - a.confidence): a stable sort, highest first
SortSkills(skills) ==
    LET insert(sorted, s) ==
            LET ahead == Cardinality({k \in 1..Len(sorted) :
                                         ~RLt(sorted[k].confidence, s.confidence)})
            IN  SubSeq(sorted, 1, ahead) \o <<s>> \o SubSeq(sorted, ahead + 1, Len(sorted))
        sorted[k \in 0..Len(skills)] ==
            IF k = 0 THEN <<>> ELSE insert(sorted[k - 1], skills[k])
    IN  sorted[Len(skills)]

\* Array.from(new Map(skills.map(s => [s.skill.toLowerCase(), s])).values()):
\* a key keeps the place of its first entry and the value of its last one
UniqueSkills(skills) ==
    LET key(k) == ToLowerCase(skills[k].skill)
        firsts == Filter([k \in 1..Len(skills) |-> k],
                         {k \in 1..Len(skills) : \A j \in 1..(k - 1) : key(j) # key(k)})
        last(k) == Greatest({j \in 1..Len(skills) : key(j) = key(k)})
    IN  Tuple([n \in 1..Len(firsts) |-> skills[last(firsts[n])]])

\* The outcome of extractSkills: [threw |-> TRUE, ...] when it throws (building
\* the regular expression of a keyword), [threw |-> FALSE, value |-> the skills]
\* when it returns.
extractSkills(resumeText) ==
    LET processedText == ToLowerCase(resumeText)
        throws(keywords) ==
            \E k \in 1..Len(keywords) : RegExpSyntaxError(KeywordSource(keywords[k]))
        hits(keywords, confidence, category) ==
            LET found == Filter(keywords,
                                {k \in 1..Len(keywords) :
                                     KeywordTest(processedText, ToLowerCase(keywords[k]))})
            IN  Tuple([k \in 1..Len(found) |->
                          [skill |-> found[k], confidence |-> confidence,
                           category |-> category]])
        skills == hits(TECHNICAL_KEYWORDS, <<9, 10>>, "technical")
                      \o hits(SOFT_KEYWORDS, <<3, 4>>, "soft")
    IN  IF throws(TECHNICAL_KEYWORDS) \/ throws(SOFT_KEYWORDS)
        THEN [threw |-> TRUE, error |-> "SyntaxError"]
        ELSE [threw |-> FALSE,
              value |-> SliceTo(SortSkills(UniqueSkills(skills)), 30)]

(***************************************************************************)
(* resumeParser.ts: education.                                             *)
(***************************************************************************)
\* The alternatives of each regex are literal words (\. is a literal dot);
\* every regex has the flags g and i.
EDUCATION_PATTERNS ==
    << [alternatives |-> <<<<"b", "a", "c", "h", "e", "l", "o", "r">>, <<"b", ".", "s">>, <<"b", ".", "a">>, <<"u", "n", "d", "e", "r", "g", "r", "a", "d", "u", "a", "t", "e">>>>,
        level |-> "Bachelor"],
       [alternatives |-> <<<<"m", "a", "s", "t", "e", "r">>, <<"m", ".", "s">>, <<"m", ".", "a">>, <<"g", "r", "a", "d", "u", "a", "t", "e">>>>,
        level |-> "Master"],
       [alternatives |-> <<<<"p", "h", "d">>, <<"d", "o", "c", "t", "o", "r", "a", "t", "e">>>>,
        level |-> "PhD"],
       [alternatives |-> <<<<"c", "e", "r", "t", "i", "f", "i", "c", "a", "t", "i", "o", "n">>, <<"c", "e", "r", "t", "i", "f", "i", "e", "d">>, <<"c", "e", "r", "t">>>>,
        level |-> "Certification"],
       [alternatives |-> <<<<"h", "i", "g", "h", " ", "s", "c", "h", "o", "o", "l">>, <<"s", "e", "c", "o", "n", "d", "a", "r", "y">>>>,
        level |-> "High School"] >>

\* lastIndex of every regex of EDUCATION_PATTERNS when the module is loaded
FreshLastIndex == [i \in 1..Len(EDUCATION_PATTERNS) |-> 0]

\* regex.test(line) on a regex with the g flag whose lastIndex is from: the
\* search starts at the offset from; a match leaves lastIndex behind the
\* match, a failure leaves it 0
GlobalTest(alternatives, line, from) ==
    LET starts == {a \in from..Len(line) : FirstWordAt(line, alternatives, a) # 0}
        first == Least(starts)
    IN  IF starts = {}
        THEN [found |-> FALSE, lastIndex |-> 0]
        ELSE [found |-> TRUE,
              lastIndex |-> first + Len(alternatives[FirstWordAt(line, alternatives, first)])]

\* the for-of loop over EDUCATION_PATTERNS on one line, from the lastIndex
\* values before it: the lastIndex values after it and the pattern whose test
\* succeeded (hit, 0 when none did); the patterns behind the hit are not tested
TestPatterns(line, before) ==
    LET tests[i \in 0..Len(EDUCATION_PATTERNS)] ==
            IF i = 0 THEN [lastIndex |-> before, hit |-> 0]
            ELSE LET prev == tests[i - 1]
                     test == GlobalTest(EDUCATION_PATTERNS[i].alternatives, line,
                                        prev.lastIndex[i])
                 IN  IF prev.hit # 0 THEN prev
                     ELSE [lastIndex |-> [prev.lastIndex EXCEPT ![i] = test.lastIndex],
                           hit |-> IF test.found THEN i ELSE 0]
    IN  tests[Len(EDUCATION_PATTERNS)]

\* [a-z\s&] and [a-z\s] under the flag i
DegreeClass == Letters \cup WhiteSpace \cup {"&"}

FieldClass == Letters \cup WhiteSpace

\* line.match(/([a-z\s&]{2,50})\s+in\s+([a-z\s]{2,50})/i): the leftmost match,
\* every quantifier taking as much as a match allows, the earlier ones first
DegreeMatch(line) ==
    LET n == Len(line)
        fieldStarts(p) ==
            {q \in (p + 3)..n : /\ AllIn(line, p + 2, q, WhiteSpace)
                                /\ RunEnd(line, q, FieldClass, 50) >= q + 2}
        ins == {p \in 1..(n - 2) : /\ line[p] \in WhiteSpace
                                   /\ WordAt(line, <<"i", "n">>, p)
                                   /\ fieldStarts(p) # {}}
        degreeEnds(p) == {e \in 0..(p - 1) : AllIn(line, e, p, WhiteSpace)}
        degreeStarts(e) ==
            {s \in Max(0, e - 50)..(e - 2) : AllIn(line, s, e, DegreeClass)}
        found == UNION {UNION {{<<s, e, p>> : s \in degreeStarts(e)} :
                                  e \in degreeEnds(p)} : p \in ins}
        s0 == Least({m[1] : m \in found})
        e0 == Greatest({m[2] : m \in {m \in found : m[1] = s0}})
        p0 == CHOOSE p \in ins : <<s0, e0, p>> \in found
        q0 == Greatest(fieldStarts(p0))
    IN  IF found = {} THEN [matched |-> FALSE]
        ELSE [matched |-> TRUE,
              degree |-> Slice(line, s0, e0),
              field |-> Slice(line, q0, RunEnd(line, q0, FieldClass, 50))]

\* line.match(/\b(19|20)\d{2}\b/)
YearMatch(line) ==
    LET starts == {a \in 0..(Len(line) - 4) :
                      /\ WordBoundary(line, a)
                      /\ WordAt(line, <<"1", "9">>, a) \/ WordAt(line, <<"2", "0">>, a)
                      /\ AllIn(line, a + 2, a + 4, Digits)
                      /\ WordBoundary(line, a + 4)}
    IN  IF starts = {} THEN [matched |-> FALSE]
        ELSE [matched |-> TRUE, text |-> Slice(line, Least(starts), Least(starts) + 4)]

\* line.match(/(?:cues)\s+([class]{2,50})/i) for literal cues: the leftmost
\* cue behind which white space and two characters of the class follow, and
\* the capture behind the longest white space that allows it
CueMatch(line, cues, class) ==
    LET n == Len(line)
        cueEnd(a) == a + Len(cues[FirstWordAt(line, cues, a)])
        captures(a) ==
            IF FirstWordAt(line, cues, a) = 0 THEN {}
            ELSE {q \in (cueEnd(a) + 1)..n :
                     /\ AllIn(line, cueEnd(a), q, WhiteSpace)
                     /\ RunEnd(line, q, class, 50) >= q + 2}
        starts == {a \in 0..n : captures(a) # {}}
        q0 == Greatest(captures(Least(starts)))
    IN  IF starts = {} THEN [matched |-> FALSE]
        ELSE [matched |-> TRUE, capture |-> Slice(line, q0, RunEnd(line, q0, class, 50))]

extractInstitution(line) ==
    LET institutionMatch ==
            CueMatch(line, <<<<"f", "r", "o", "m">>, <<"a", "t">>, <<",">>>>,
                     Letters \cup WhiteSpace \cup {"&", "."})
    IN  IF institutionMatch.matched THEN Trim(institutionMatch.capture)
        ELSE <<"U", "n", "k", "n", "o", "w", "n">>

\* the callback of lines.forEach in extractEducation on one line, from
\* prev = [education, lastIndex] before it, with the outcome of the pattern
\* tests (tested) and the values of degreeMatch and yearMatch.  A record has no
\* year field when the line holds no year.
EducationStep(prev, line, tested, degreeMatch, yearMatch) ==
    [education |->
         IF tested.hit # 0 /\ degreeMatch.matched
         THEN Append(prev.education,
                     [degree |-> Trim(degreeMatch.degree),
                      field |-> Trim(degreeMatch.field),
                      institution |-> extractInstitution(line),
                      level |-> EDUCATION_PATTERNS[tested.hit].level]
                     @@ (IF yearMatch.matched
                         THEN [year |-> ParseInt(yearMatch.text)]
                         ELSE <<>>))
         ELSE prev.education,
     lastIndex |-> tested.lastIndex]

EducationLine(prev, line) ==
    EducationStep(prev, line, TestPatterns(line, prev.lastIndex), DegreeMatch(line),
                  YearMatch(line))

EducationLines(lines, before) ==
    LET each[k \in 0..Len(lines)] ==
            IF k = 0 THEN [education |-> <<>>, lastIndex |-> before]
            ELSE EducationLine(each[k - 1], lines[k])
    IN  each[Len(lines)]

\* extractEducation run with the lastIndex values before: the list it returns
\* and the lastIndex values it leaves
extractEducation(resumeText, before) == EducationLines(SplitLines(resumeText), before)

(***************************************************************************)
(* resumeParser.ts: experience.                                            *)
(***************************************************************************)
\* the alternatives of the job title cue, in the order of the regex
JobTitles ==
    << <<"s", "o", "f", "t", "w", "a", "r", "e", " ", "e", "n", "g", "i", "n", "e", "e", "r">>, <<"d", "e", "v", "e", "l", "o", "p", "e", "r">>, <<"m", "a", "n", "a", "g", "e", "r">>, <<"a", "n", "a", "l", "y", "s", "t">>, <<"a", "r", "c", "h", "i", "t", "e", "c", "t">>,
       <<"l", "e", "a", "d">>, <<"d", "i", "r", "e", "c", "t", "o", "r">>, <<"d", "e", "s", "i", "g", "n", "e", "r">>, <<"p", "r", "o", "d", "u", "c", "t">>, <<"b", "u", "s", "i", "n", "e", "s", "s">>,
       <<"d", "a", "t", "a", " ", "s", "c", "i", "e", "n", "t", "i", "s", "t">>, <<"m", "l", " ", "e", "n", "g", "i", "n", "e", "e", "r">>, <<"q", "a", " ", "e", "n", "g", "i", "n", "e", "e", "r">> >>

\* line.match(/(?:^|\s)(software engineer|...|qa engineer)/i): the title at
\* the start of the line or behind the first white space that has one
JobTitleMatch(line) ==
    LET n == Len(line)
        starts == {t \in 0..n : /\ FirstWordAt(line, JobTitles, t) # 0
                                /\ t = 0 \/ line[t] \in WhiteSpace}
        t0 == Least(starts)
    IN  IF starts = {} THEN [matched |-> FALSE]
        ELSE [matched |-> TRUE,
              title |-> Slice(line, t0, t0 + Len(JobTitles[FirstWordAt(line, JobTitles, t0)]))]

\* line.match(/(\d{4})\s*[-U+2013]\s*(\d{4}|present|current)/i)
DurationMatch(line) ==
    LET n == Len(line)
        dash(a) == RunEnd(line, a + 4, WhiteSpace, n)
        second(a) == RunEnd(line, dash(a) + 1, WhiteSpace, n)
        endWord(a) ==
            IF second(a) + 4 <= n /\ AllIn(line, second(a), second(a) + 4, Digits) THEN 4
            ELSE IF WordAt(line, <<"p", "r", "e", "s", "e", "n", "t">>, second(a)) THEN 7
            ELSE IF WordAt(line, <<"c", "u", "r", "r", "e", "n", "t">>, second(a)) THEN 7
            ELSE 0
        starts == {a \in 0..(n - 4) : /\ AllIn(line, a, a + 4, Digits)
                                      /\ dash(a) < n
                                      /\ line[dash(a) + 1] \in {"-", "U+2013"}
                                      /\ endWord(a) # 0}
        a0 == Least(starts)
    IN  IF starts = {} THEN [matched |-> FALSE]
        ELSE [matched |-> TRUE,
              text |-> Slice(line, a0, second(a0) + endWord(a0)),
              startYear |-> Slice(line, a0, a0 + 4),
              endYear |-> Slice(line, second(a0), second(a0) + endWord(a0))]

\* the difference of the years without the floor of 1
calculateYearsInRole_NoFloor(durationMatch, currentYear) ==
    IF ~durationMatch.matched THEN 1
    ELSE LET startYear == ParseInt(durationMatch.startYear)
             endYear == IF ToLowerCase(durationMatch.endYear) \in {<<"p", "r", "e", "s", "e", "n", "t">>, <<"c", "u", "r", "r", "e", "n", "t">>}
                        THEN currentYear
                        ELSE ParseInt(durationMatch.endYear)
         IN  endYear - startYear

\* currentYear is new Date().getFullYear()
calculateYearsInRole(durationMatch, currentYear) ==
    IF ~durationMatch.matched THEN 1
    ELSE LET startYear == ParseInt(durationMatch.startYear)
             endYear == IF ToLowerCase(durationMatch.endYear) \in {<<"p", "r", "e", "s", "e", "n", "t">>, <<"c", "u", "r", "r", "e", "n", "t">>}
                        THEN currentYear
                        ELSE ParseInt(durationMatch.endYear)
         IN  Max(1, endYear - startYear)

BulletMarks == {"-", "U+2022", "*"}

\* line.match(/^[\s]*[-U+2022*]/)
BulletMatch(line) ==
    LET mark == RunEnd(line, 0, WhiteSpace, Len(line))
    IN  mark < Len(line) /\ line[mark + 1] \in BulletMarks

\* line.replace(/^[\s]*[-U+2022*]\s*/, '').trim() of a line that has the marker
BulletText(line) ==
    LET mark == RunEnd(line, 0, WhiteSpace, Len(line))
    IN  Trim(Slice(line, RunEnd(line, mark + 1, WhiteSpace, Len(line)), Len(line)))

\* the role opened on a line with a job title
OpenRole(jobTitleMatch, companyMatch, durationMatch, currentYear) ==
    [jobTitle |-> Trim(jobTitleMatch.title),
     company |-> IF companyMatch.matched THEN Trim(companyMatch.capture)
                 ELSE <<"U", "n", "k", "n", "o", "w", "n">>,
     duration |-> IF durationMatch.matched THEN durationMatch.text ELSE <<"U", "n", "k", "n", "o", "w", "n">>,
     yearsInRole |-> calculateYearsInRole(durationMatch, currentYear),
     responsibilities |-> <<>>,
     skills |-> <<>>]

\* the first half of the callback of lines.forEach in extractExperience, from
\* prev = [experience, currentRole] before it: the title test
TitleStep(prev, line, jobTitleMatch, currentYear) ==
    IF jobTitleMatch.matched
    THEN [experience |-> IF prev.currentRole # None
                         THEN Append(prev.experience, prev.currentRole)
                         ELSE prev.experience,
          currentRole |->
              OpenRole(jobTitleMatch,
                       CueMatch(line, <<<<"a", "t">>, <<"@">>, <<",">>>>,
                                Letters \cup Digits \cup WhiteSpace \cup {"&", "."}),
                       DurationMatch(line), currentYear)]
    ELSE prev

\* the bullet test made on the role that was open before the title test: a
\* bullet line that opens a role is not stored in it
BulletStep_NotOnTitleLine(titled, line) ==
    IF titled.currentRole # None /\ BulletMatch(line) /\ ~JobTitleMatch(line).matched
    THEN [titled EXCEPT !.currentRole.responsibilities = Append(@, BulletText(line))]
    ELSE titled

\* the second half: the bullet test, on the role open after the title test
BulletStep(titled, line) ==
    IF titled.currentRole # None /\ BulletMatch(line)
    THEN [titled EXCEPT !.currentRole.responsibilities = Append(@, BulletText(line))]
    ELSE titled

ExperienceLines(lines, currentYear) ==
    LET each[k \in 0..Len(lines)] ==
            IF k = 0 THEN [experience |-> <<>>, currentRole |-> None]
            ELSE BulletStep(TitleStep(each[k - 1], lines[k], JobTitleMatch(lines[k]),
                                      currentYear),
                            lines[k])
    IN  each[Len(lines)]

\* the role still open behind the last line is not pushed
CloseRole_Forgotten(last) == last.experience

\* the push of the role still open behind the last line
CloseRole(last) ==
    IF last.currentRole # None THEN Append(last.experience, last.currentRole)
    ELSE last.experience

extractExperience(resumeText, currentYear) ==
    CloseRole(ExperienceLines(SplitLines(resumeText), currentYear))

\* Math.round(total * 10) / 10
calculateYearsExperience(experience) ==
    LET total[k \in 0..Len(experience)] ==
            IF k = 0 THEN 0 ELSE total[k - 1] + experience[k].yearsInRole
    IN  Rat(MathRound(<<total[Len(experience)] * 10, 1>>), 10)

calculateExtractionScore(skills, education, experience) ==
    LET score == RAdd(RAdd(RAdd(<<1, 2>>,
                                IF Len(skills) > 5 THEN <<2, 10>> ELSE <<0, 1>>),
                           IF Len(education) > 0 THEN <<15, 100>> ELSE <<0, 1>>),
                      IF Len(experience) > 0 THEN <<15, 100>> ELSE <<0, 1>>)
    IN  IF RLt(<<1, 1>>, score) THEN <<1, 1>> ELSE score

\* yearsExperience is a whole number: every yearsInRole is one
generateSummary(skills, experience, yearsExperience) ==
    LET top == SliceTo(skills, 5)
        topSkills == Join(Tuple([k \in 1..Len(top) |-> top[k].skill]), <<",", " ">>)
        latestRole == IF Len(experience) > 0 /\ experience[1].jobTitle # <<>>
                      THEN experience[1].jobTitle
                      ELSE <<"P", "r", "o", "f", "e", "s", "s", "i", "o", "n", "a", "l">>
    IN  NumberText(yearsExperience[1]) \o <<" ", "y", "e", "a", "r", "s", " ", "o", "f", " ", "e", "x", "p", "e", "r", "i", "e", "n", "c", "e", " ", "a", "s", " ">> \o latestRole
            \o <<" ", "w", "i", "t", "h", " ", "e", "x", "p", "e", "r", "t", "i", "s", "e", " ", "i", "n", " ">> \o topSkills \o <<".">>

(***************************************************************************)
(* resumeParser.ts: parseResume.                                           *)
(***************************************************************************)
\* the ParsedResume parseResume returns, from the values of its constants.
\* The embeddings field (a hash of the words, normalised by a square root) is
\* left out.
ParsedResume(skills, education, experience, totalYearsExperience) ==
    [skills |-> skills,
     education |-> education,
     experience |-> experience,
     totalYearsExperience |-> totalYearsExperience,
     summary |-> generateSummary(skills, experience, totalYearsExperience),
     extractionScore |-> calculateExtractionScore(skills, education, experience)]

\* parseResume from the outcomes of extractSkills and extractEducation and the
\* value of experience: a throw of extractSkills ends it before the education
\* patterns are touched
ParseOutcome(skills, education, experience, before) ==
    IF skills.threw
    THEN [threw |-> TRUE, error |-> skills.error, lastIndex |-> before]
    ELSE [threw |-> FALSE,
          value |-> ParsedResume(skills.value, education.education, experience,
                                 calculateYearsExperience(experience)),
          lastIndex |-> education.lastIndex]

\* The outcome of parseResume run with the lastIndex values before: whether it
\* threw, what it returned, and the lastIndex values it leaves.
parseResume(resumeText, before, currentYear) ==
    ParseOutcome(extractSkills(resumeText), extractEducation(resumeText, before),
                 extractExperience(resumeText, currentYear), before)

(***************************************************************************)
(* part_000: the route /api/screenCandidate.  What fetch and the parsing   *)
(* of the reply give is written as an outcome: kind is "rejected" (fetch   *)
(* throws), "notOk" (response.ok is false) or "ok"; parse says what the    *)
(* content of an ok reply is: "json" (JSON.parse returns an object),       *)
(* "embedded" (JSON.parse throws, the text between the first { and the     *)
(* last } parses to an object), "noBraces" (JSON.parse throws, no { } in   *)
(* the text) or "invalid" (JSON.parse throws on the text and on the part   *)
(* in braces).  An analysis object is written with the set of the fields   *)
(* it defines.                                                             *)
(***************************************************************************)
\* the object {}
EmptyAnalysis ==
    [defined |-> {}, competency_match |-> 0, summary |-> "", recommendation |-> ""]

\* the value getDeepseekAnalysis resolves to
getDeepseekAnalysis(fetched) ==
    IF fetched.kind = "rejected" THEN EmptyAnalysis
    ELSE IF fetched.kind = "notOk" THEN EmptyAnalysis
    ELSE IF fetched.parse = "json" THEN fetched.value
    ELSE IF fetched.parse = "embedded" THEN fetched.value
    ELSE EmptyAnalysis

\* deepseekAnalysis.competency_match || 0
CompetencyMatchOr0(deepseekAnalysis) ==
    IF "competency_match" \in deepseekAnalysis.defined
    THEN deepseekAnalysis.competency_match ELSE 0

\* deepseekAnalysis[field] || fallback for a field that holds a string
TextOr(deepseekAnalysis, field, fallback) ==
    IF field \in deepseekAnalysis.defined /\ deepseekAnalysis[field] # ""
    THEN deepseekAnalysis[field] ELSE fallback

\* Math.round(overallFitScore * 0.6 + (deepseekAnalysis.competency_match || 0) * 0.4)
finalCompetencyMatch(competencyScoringResult, deepseekAnalysis) ==
    MathRound(RAdd(RMul(<<competencyScoringResult.overallFitScore, 1>>, <<6, 10>>),
                   RMul(<<CompetencyMatchOr0(deepseekAnalysis), 1>>, <<4, 10>>)))

\* the response of a screening that ran to its end (scoringPipeline and
\* skill_match_details, which repeat values of the other fields, are left out)
responseData(parsedResume, competencyScoringResult, deepseekAnalysis) ==
    [status |-> 200,
     success |-> TRUE,
     competency_match |-> finalCompetencyMatch(competencyScoringResult, deepseekAnalysis),
     cultural_fit |-> generateCulturalFitNarrative(competencyScoringResult.culturalFitIndex),
     predicted_success |->
         generateSuccessPrediction(
             finalCompetencyMatch(competencyScoringResult, deepseekAnalysis),
             competencyScoringResult.culturalFitIndex,
             parsedResume.totalYearsExperience[1]),
     summary |-> TextOr(deepseekAnalysis, "summary", competencyScoringResult.recommendations),
     skill_gaps |-> competencyScoringResult.skillGaps,
     strengths |-> competencyScoringResult.strengths,
     recommendation |->
         TextOr(deepseekAnalysis, "recommendation", competencyScoringResult.recommendations),
     ranking_score |-> competencyScoringResult.rankingScore]

\* jdData.core_skills || []
requiredSkills(jdData) ==
    IF "core_skills" \in DOMAIN jdData THEN jdData.core_skills ELSE <<>>

\* the handler behind the test of the request, from the outcome of parseResume
Screen(resume, jdData, fetched, parsed) ==
    IF parsed.threw
    THEN [response |-> [status |-> 500, error |-> "Failed to screen candidate",
                        details |-> parsed.error],
          lastIndex |-> parsed.lastIndex]
    ELSE [response |->
              responseData(parsed.value,
                           scoreCompetencies(parsed.value.skills, requiredSkills(jdData),
                                             resume),
                           getDeepseekAnalysis(fetched)),
          lastIndex |-> parsed.lastIndex]

\* POST of /api/screenCandidate: the response and the lastIndex values it leaves
\* (jdData.given is whether the body has a jdData)
POST(resume, jdData, fetched, before, currentYear) ==
    IF resume = <<>> \/ ~jdData.given
    THEN [response |-> [status |-> 400, error |-> "Missing resume or JD data"],
          lastIndex |-> before]
    ELSE Screen(resume, jdData, fetched, parseResume(resume, before, currentYear))

(***************************************************************************)
(* The similarity matcher called on every pair of short strings.           *)
(***************************************************************************)
SimAlphabet == {"a", "A", "b", " "}

SimStrings == StringsUpTo(SimAlphabet, MaxStrLen)

InitSim ==
    /\ pc = "ready"
    /\ op = "calculateSimilarity"
    /\ args \in [str1 : SimStrings, str2 : SimStrings]
    /\ ret = None
    /\ lastIndex = [i \in 1..5 |-> 0]

CallCalculateSimilarity ==
    /\ pc = "ready"
    /\ op = "calculateSimilarity"
    /\ ret' = calculateSimilarity(args.str1, args.str2)
    /\ pc' = "done"
    /\ UNCHANGED <<op, args, lastIndex>>

NextSim == CallCalculateSimilarity

SpecSim == InitSim /\ [][NextSim]_vars

(***************************************************************************)
(* Claims about the similarity matcher.                                    *)
(***************************************************************************)

\* the classic Levenshtein distance of a and b (insert, delete, substitute,
\* each at cost 1): lev[i, j] is the distance of the prefixes a[1..i] and b[1..j]
Levenshtein(a, b) ==
    LET lev[i \in 0..Len(a), j \in 0..Len(b)] ==
            IF i = 0 THEN j
            ELSE IF j = 0 THEN i
            ELSE Min(Min(lev[i - 1, j] + 1, lev[i, j - 1] + 1),
                     lev[i - 1, j - 1] + (IF a[i] = b[j] THEN 0 ELSE 1))
    IN  lev[Len(a), Len(b)]

SimDone == pc = "done" /\ op = "calculateSimilarity"

NormStr1 == Trim(ToLowerCase(args.str1))

NormStr2 == Trim(ToLowerCase(args.str2))

\* C6: calculateSimilarity applies three rules in priority order on the
\* lower-cased, trimmed strings: equal strings give 1; otherwise containment
\* of one in the other gives 0.85; otherwise the result is 1 - d/len(longer)
\* with d the classic Levenshtein distance of the two normalized strings.
C6_SimilarityRules ==
    SimDone =>
        LET a == NormStr1
            b == NormStr2
        IN  ret = IF a = b THEN <<1, 1>>
                  ELSE IF \/ \E p \in 1..(Len(a) + 1) : OccursAt(a, b, p)
                          \/ \E p \in 1..(Len(b) + 1) : OccursAt(b, a, p)
                       THEN <<17, 20>>
                  ELSE RSub(<<1, 1>>, Rat(Levenshtein(a, b), Max(Len(a), Len(b))))

\* a call that took the edit-distance rule on strings of different lengths,
\* with a distance that is neither 0 nor the full length
C6_Witness ==
    /\ SimDone
    /\ Len(NormStr1) # Len(NormStr2)
    /\ ret = <<1, 3>>

\* C7: calculateSimilarity(a, b) lies in [0, 1] for all strings, the empty
\* string and strings of very different lengths included; it is never negative.
C7_SimilarityInUnitInterval ==
    SimDone => RLe(<<0, 1>>, ret) /\ RLe(ret, <<1, 1>>)

\* a call on strings of lengths 1 and 3 that share no character: the result is 0
C7_Witness ==
    /\ SimDone
    /\ Len(NormStr1) = 1
    /\ Len(NormStr2) = 3
    /\ ret = <<0, 1>>

\* C8: calculateSimilarity(a, b) = calculateSimilarity(b, a) in every branch.
C8_SimilaritySymmetric ==
    SimDone => ret = calculateSimilarity(args.str2, args.str1)

\* a call on two different strings of equal length that took the edit-distance rule
C8_Witness ==
    /\ SimDone
    /\ Len(NormStr1) = Len(NormStr2)
    /\ Len(NormStr1) = 3
    /\ ret = <<1, 3>>

(***************************************************************************)
(* scoreCompetencies called on short skill and competency lists.           *)
(***************************************************************************)
SkillSamples ==
    { [skill |-> <<"P", "y", "t", "h", "o", "n">>, confidence |-> <<1, 1>>, category |-> "technical"],
      [skill |-> <<"J", "a", "v", "a", "S", "c", "r", "i", "p", "t">>, confidence |-> <<9, 10>>, category |-> "technical"],
      [skill |-> <<"P", "Y", "T", "H", "O", "N">>, confidence |-> <<0, 1>>, category |-> "technical"],
      [skill |-> <<"L", "e", "a", "d", "e", "r", "s", "h", "i", "p">>, confidence |-> <<3, 4>>, category |-> "soft"] }

CompetencySamples ==
    { <<"p", "y", "t", "h", "o", "n">>, <<"J", "a", "v", "a">>,
      <<"K", "u", "b", "e", "r", "n", "e", "t", "e", "s">> }

ScoreTexts ==
    { <<>>, <<"A", "g", "i", "l", "e", " ", "t", "e", "a", "m", ".", " ", "I", " ", "c", "o", "l", "l", "a", "b", "o", "r", "a", "t", "e", ";", " ", "l", "e", "a", "d", "e", "r", "s", "h", "i", "p">> }

InitScore ==
    /\ pc = "ready"
    /\ op = "scoreCompetencies"
    /\ args \in [extractedSkills : SeqsUpTo(SkillSamples, MaxSkills),
                 requiredCompetencies : SeqsUpTo(CompetencySamples, MaxRequired),
                 resumeText : ScoreTexts]
    /\ ret = None
    /\ lastIndex = [i \in 1..5 |-> 0]

CallScoreCompetencies ==
    /\ pc = "ready"
    /\ op = "scoreCompetencies"
    /\ ret' = scoreCompetencies(args.extractedSkills, args.requiredCompetencies,
                                args.resumeText)
    /\ pc' = "done"
    /\ UNCHANGED <<op, args, lastIndex>>

NextScore == CallScoreCompetencies

SpecScore == InitScore /\ [][NextScore]_vars

(***************************************************************************)
(* Claims about scoreCompetencies on short lists.                          *)
(***************************************************************************)
ScoreDone == pc = "done" /\ op = "scoreCompetencies"

\* the entries of ret.competencyMatches that are gaps, by position
GapPositions == {k \in 1..Len(ret.competencyMatches) : ret.competencyMatches[k].gap}

\* C3: each of overallFitScore, culturalFitIndex and rankingScore returned by
\* scoreCompetencies is an integer between 0 and 100, for skill confidences
\* from 0 to 1 and for empty texts, skill lists and competency lists.
C3_ScoresInRange ==
    ScoreDone =>
        /\ ret.overallFitScore \in 0..100
        /\ ret.culturalFitIndex \in 0..100
        /\ ret.rankingScore \in 0..100

\* a full score: every required competency matched exactly with confidence 1
C3_Witness ==
    /\ ScoreDone
    /\ Len(args.requiredCompetencies) = MaxRequired
    /\ args.resumeText # <<>>
    /\ ret.overallFitScore = 100
    /\ ret.rankingScore > ret.culturalFitIndex

\* C4: scoreCompetencies returns one match per entry of requiredCompetencies,
\* duplicates included; a competency that no extracted skill resembles with
\* similarity above 0.5 gets the gap entry and is listed in skillGaps; and
\* skillGaps is exactly the competencies of the gap entries.
C4_OneMatchPerCompetency ==
    ScoreDone =>
        LET required == args.requiredCompetencies
            matches == ret.competencyMatches
            times(c, n) == Cardinality({k \in 1..n : required[k] = c})
            matched(c, n) == Cardinality({k \in 1..n : matches[k].competency = c})
            unmatched(c) ==
                \A s \in 1..Len(args.extractedSkills) :
                    ~RLt(<<1, 2>>, calculateSimilarity(c, args.extractedSkills[s].skill))
        IN  /\ Len(matches) = Len(required)
            /\ \A r \in 1..Len(required) :
                   matched(required[r], Len(matches)) = times(required[r], Len(required))
            /\ \A k \in 1..Len(matches) :
                   unmatched(matches[k].competency) =>
                       /\ matches[k].extractedSkill = <<>>
                       /\ matches[k].confidenceScore = <<0, 1>>
                       /\ matches[k].proficiencyLevel = "Beginner"
                       /\ matches[k].gap
                       /\ \E g \in 1..Len(ret.skillGaps) :
                              ret.skillGaps[g] = matches[k].competency
            /\ Len(ret.skillGaps) = Cardinality(GapPositions)
            /\ \A g \in 1..Len(ret.skillGaps) :
                   \E k \in GapPositions :
                       /\ Cardinality({j \in GapPositions : j <= k}) = g
                       /\ ret.skillGaps[g] = matches[k].competency
            /\ Len(ret.skillGaps) + Cardinality((1..Len(matches)) \ GapPositions)
                   = Len(required)

\* one competency required twice and matched, another one a gap
C4_Witness ==
    /\ ScoreDone
    /\ Len(args.requiredCompetencies) = 3
    /\ args.requiredCompetencies[1] = args.requiredCompetencies[3]
    /\ args.requiredCompetencies[2] # args.requiredCompetencies[1]
    /\ GapPositions = {3}
    /\ ret.competencyMatches[1] = ret.competencyMatches[2]

\* C5: competencyMatches is in non-increasing order of confidenceScore, and
\* entries of equal confidenceScore (the gap entries among them) stay in the
\* order of requiredCompetencies.
C5_SortedStable ==
    ScoreDone =>
        LET required == args.requiredCompetencies
            matches == ret.competencyMatches
            scoreOf(c) ==
                matches[CHOOSE k \in 1..Len(matches) : matches[k].competency = c].confidenceScore
            tied(v) == Filter(matches, {k \in 1..Len(matches) : matches[k].confidenceScore = v})
            asked(v) == Filter(required, {r \in 1..Len(required) : scoreOf(required[r]) = v})
        IN  /\ \A i \in 1..Len(matches) : \A j \in i..Len(matches) :
                   RLe(matches[j].confidenceScore, matches[i].confidenceScore)
            /\ \A k \in 1..Len(matches) :
                   LET v == matches[k].confidenceScore
                   IN  /\ Len(tied(v)) = Len(asked(v))
                       /\ \A t \in 1..Len(tied(v)) : tied(v)[t].competency = asked(v)[t]

\* a match pushed between two gaps of different competencies comes out first,
\* and the two gaps keep their order
C5_Witness ==
    /\ ScoreDone
    /\ Len(args.requiredCompetencies) = 3
    /\ GapPositions = {2, 3}
    /\ ret.competencyMatches[1].competency = args.requiredCompetencies[2]
    /\ ret.competencyMatches[2].competency = args.requiredCompetencies[1]
    /\ ret.competencyMatches[3].competency = args.requiredCompetencies[3]
    /\ args.requiredCompetencies[1] # args.requiredCompetencies[3]

Phrases ==
    << [text |-> <<"A", "g", "i", "l", "e">>, groups |-> {"agile"}],
       [text |-> <<"f", "r", "a", "g", "i", "l", "e", " ", "s", "p", "r", "i", "n", "t", "s">>, groups |-> {"agile"}],
       [text |-> <<"T", "e", "a", "m", " ", "w", "o", "r", "k", ",", " ", "c", "r", "o", "s", "s", " ", "f", "u", "n", "c", "t", "i", "o", "n", "a", "l">>, groups |-> {}],
       [text |-> <<"C", "r", "o", "s", "s", "-", "F", "u", "n", "c", "t", "i", "o", "n", "a", "l", " ", "t", "e", "a", "m", "w", "o", "r", "k">>, groups |-> {"collab"}],
       [text |-> <<"c", "r", "e", "a", "t", "i", "v", "i", "t", "y", " ", "a", "n", "d", " ", "i", "n", "n", "o", "v", "a", "t", "i", "o", "n">>, groups |-> {"innov"}],
       [text |-> <<"i", "n", "n", "o", "v", "a", "t", "i", "v", "e", " ", "l", "e", "a", "d", "e", "r">>, groups |-> {}],
       [text |-> <<"I", " ", "m", "e", "n", "t", "o", "r", "e", "d", " ", "S", "C", "R", "U", "M", " ", "t", "e", "a", "m", "s">>, groups |-> {"agile", "lead"}],
       [text |-> <<"a", "g", "i", "l", "e", ",", " ", "c", "o", "l", "l", "a", "b", "o", "r", "a", "t", "e", ",", " ", "l", "e", "a", "d", "e", "r", "s", "h", "i", "p">>, groups |-> {"agile", "collab", "lead"}] >>

\* Array.prototype.join(' ') of the texts of the phrases numbered in picks
JoinPhrases(picks) ==
    LET joined[k \in 0..Len(picks)] ==
            IF k = 0 THEN <<>>
            ELSE IF k = 1 THEN Phrases[picks[k]].text
            ELSE joined[k - 1] \o <<" ">> \o Phrases[picks[k]].text
    IN  joined[Len(picks)]

SoftSkill ==
    [skill |-> <<"T", "e", "a", "m", "w", "o", "r", "k">>, confidence |-> <<3, 4>>, category |-> "soft"]

TechnicalSkill ==
    [skill |-> <<"P", "y", "t", "h", "o", "n">>, confidence |-> <<9, 10>>, category |-> "technical"]

\* nSoft soft skills behind nTechnical technical ones
SkillList(nTechnical, nSoft) ==
    [k \in 1..(nTechnical + nSoft) |-> IF k <= nTechnical THEN TechnicalSkill ELSE SoftSkill]

InitCultural ==
    /\ pc = "ready"
    /\ op = "scoreCompetencies"
    /\ \E picks \in SeqsUpTo(1..Len(Phrases), MaxPhrases) :
       \E nTechnical \in 0..1 :
       \E nSoft \in 0..MaxSoftSkills :
           args = [extractedSkills |-> SkillList(nTechnical, nSoft),
                   requiredCompetencies |-> <<>>,
                   resumeText |-> JoinPhrases(picks),
                   phrases |-> picks]
    /\ ret = None
    /\ lastIndex = [i \in 1..5 |-> 0]

SpecCultural == InitCultural /\ [][NextScore]_vars

(***************************************************************************)
(* Claims about the cultural fit index.                                    *)
(***************************************************************************)
CulturalDone == ScoreDone /\ "phrases" \in DOMAIN args

\* the keyword groups found in the phrases the text was written from
GroupsWritten ==
    UNION {Phrases[args.phrases[k]].groups : k \in 1..Len(args.phrases)}

\* the number of passed skills of category soft
SoftSkillCount ==
    Cardinality({k \in 1..Len(args.extractedSkills) :
                    args.extractedSkills[k].category = "soft"})

\* C10: culturalFitIndex is min(100, 50 + 10 for agile, scrum or sprint + 10 for
\* collaborate, teamwork or cross-functional + 5 for innovation or creative + 8
\* for leadership or mentor + min(2 * softSkillCount, 15)), the words looked up
\* as substrings whatever their case; a text with agile, collaborate and
\* leadership and no soft skill gives 78, which the narrative calls High.
C10_CulturalFitFormula ==
    CulturalDone =>
        LET bonus(group, points) == IF group \in GroupsWritten THEN points ELSE 0
            expected ==
                Min(100, 50 + bonus("agile", 10) + bonus("collab", 10) + bonus("innov", 5)
                            + bonus("lead", 8) + Min(2 * SoftSkillCount, 15))
        IN  /\ ret.culturalFitIndex = expected
            /\ (GroupsWritten = {"agile", "collab", "lead"} /\ SoftSkillCount = 0) =>
                   /\ ret.culturalFitIndex = 78
                   /\ generateCulturalFitNarrative(ret.culturalFitIndex) = "High"

\* the text "agile, collaborate, leadership" scored with one technical skill
C10_Witness ==
    /\ CulturalDone
    /\ args.resumeText = <<"a", "g", "i", "l", "e", ",", " ", "c", "o", "l", "l", "a", "b", "o", "r", "a", "t", "e", ",", " ", "l", "e", "a", "d", "e", "r", "s", "h", "i", "p">>
    /\ Len(args.extractedSkills) = 1
    /\ SoftSkillCount = 0
    /\ ret.culturalFitIndex = 78

(***************************************************************************)
(* scoreCompetencies called on skills that resemble the competencies       *)
(* exactly, by inclusion (0.85), by edit distance above 0.5 (Pithon and    *)
(* Python: 5/6) and by edit distance of exactly 0.5 (Ruby and Rust).       *)
(***************************************************************************)
MatchSkillSamples ==
    { [skill |-> <<"P", "y", "t", "h", "o", "n">>, confidence |-> <<9, 10>>, category |-> "technical"],
      [skill |-> <<"p", "y", "t", "h", "o", "n">>, confidence |-> <<3, 4>>, category |-> "technical"],
      [skill |-> <<"P", "i", "t", "h", "o", "n">>, confidence |-> <<9, 10>>, category |-> "technical"],
      [skill |-> <<"R", "u", "b", "y">>, confidence |-> <<9, 10>>, category |-> "technical"],
      [skill |-> <<"R", "u", "s", "t", "y">>, confidence |-> <<3, 4>>, category |-> "technical"],
      [skill |-> <<"T", "r", "u", "s", "t">>, confidence |-> <<9, 10>>, category |-> "soft"] }

MatchCompetencySamples == { <<"P", "y", "t", "h", "o", "n">>, <<"R", "u", "s", "t">> }

InitMatch ==
    /\ pc = "ready"
    /\ op = "scoreCompetencies"
    /\ args \in [extractedSkills : SeqsUpTo(MatchSkillSamples, MaxSkills),
                 requiredCompetencies : SeqsUpTo(MatchCompetencySamples, MaxRequired),
                 resumeText : {<<>>}]
    /\ ret = None
    /\ lastIndex = [i \in 1..5 |-> 0]

SpecMatch == InitMatch /\ [][NextScore]_vars

(***************************************************************************)
(* Claims about the skill matched to a competency.                         *)
(***************************************************************************)
\* the positions of the extracted skills whose similarity to the competency is
\* above 0.5
Accepted(competency) ==
    {k \in 1..Len(args.extractedSkills) :
        RLt(<<1, 2>>, calculateSimilarity(competency, args.extractedSkills[k].skill))}

\* the first of the accepted positions among those of the highest similarity
BestPosition(competency) ==
    CHOOSE k \in Accepted(competency) :
        \A j \in Accepted(competency) :
            LET simK == calculateSimilarity(competency, args.extractedSkills[k].skill)
                simJ == calculateSimilarity(competency, args.extractedSkills[j].skill)
            IN  RLe(simJ, simK) /\ (simJ = simK => k <= j)

\* the entry m is what its competency is claimed to be matched with
MatchedAsClaimed(m) ==
    IF Accepted(m.competency) = {}
    THEN m.gap
    ELSE /\ ~m.gap
         /\ m.extractedSkill = args.extractedSkills[BestPosition(m.competency)].skill
         /\ m.confidenceScore =
                RMul(calculateSimilarity(m.competency, m.extractedSkill),
                     args.extractedSkills[BestPosition(m.competency)].confidence)

\* C18: the skill matched to a required competency is the extracted skill of
\* the highest similarity among those with a similarity above 0.5 (a
\* similarity of exactly 0.5 is not accepted), the earliest in the list of
\* extracted skills among those of the highest similarity, and the
\* confidenceScore of the match is that similarity times the confidence of that
\* skill; so Python required and Python extracted with confidence 0.9 give a
\* confidenceScore of 0.9 and no gap.
C18_BestAboveHalfFirstWins ==
    ScoreDone =>
        /\ \A k \in 1..Len(ret.competencyMatches) :
               MatchedAsClaimed(ret.competencyMatches[k])
        /\ (args.extractedSkills = << [skill |-> <<"P", "y", "t", "h", "o", "n">>, confidence |-> <<9, 10>>,
                                       category |-> "technical"] >>
              /\ args.requiredCompetencies = << <<"P", "y", "t", "h", "o", "n">> >>)
               => /\ ret.competencyMatches[1].confidenceScore = <<9, 10>>
                  /\ ~ret.competencyMatches[1].gap

\* of python and Python, both of similarity 1 to the competency Python, the
\* first in the list is matched, with its confidence 0.75
C18_Witness ==
    /\ ScoreDone
    /\ args.extractedSkills =
           << [skill |-> <<"p", "y", "t", "h", "o", "n">>, confidence |-> <<3, 4>>, category |-> "technical"],
              [skill |-> <<"P", "y", "t", "h", "o", "n">>, confidence |-> <<9, 10>>, category |-> "technical"] >>
    /\ args.requiredCompetencies = << <<"P", "y", "t", "h", "o", "n">> >>
    /\ ret.competencyMatches[1].extractedSkill = <<"p", "y", "t", "h", "o", "n">>
    /\ ret.competencyMatches[1].confidenceScore = <<3, 4>>

(***************************************************************************)
(* The parser called again and again in one process: each call finds the   *)
(* lastIndex values the calls before it left.                              *)
(***************************************************************************)
ResumeLines ==
    << <<"B", "a", "c", "h", "e", "l", "o", "r", " ", "o", "f", " ", "A", "r", "t", "s", " ", "i", "n", " ", "H", "i", "s", "t", "o", "r", "y">>,
       <<"B", "a", "c", "h", "e", "l", "o", "r", " ", "i", "n", " ", "P", "h", "y", "s", "i", "c", "s", ",", " ", "2", "0", "1", "9">>,
       <<"M", "a", "s", "t", "e", "r", " ", "o", "f", " ", "S", "c", "i", "e", "n", "c", "e", " ", "i", "n", " ", "M", "a", "t", "h", " ", "f", "r", "o", "m", " ", "M", "I", "T">>,
       <<"S", "o", "f", "t", "w", "a", "r", "e", " ", "E", "n", "g", "i", "n", "e", "e", "r", " ", "a", "t", " ", "A", "c", "m", "e", ",", " ", "2", "0", "1", "5", "-", "2", "0", "2", "0">>,
       <<"A", "W", "S", " ", "C", "e", "r", "t", "i", "f", "i", "e", "d">> >>

\* the texts of at most MaxLines of the lines (the empty text among them)
ResumeTexts ==
    {Join(Tuple([k \in 1..Len(picks) |-> ResumeLines[picks[k]]]), <<"\n">>) :
        picks \in SeqsUpTo(1..Len(ResumeLines), MaxLines)}

\* what new Date().getFullYear() may give
CurrentYears == {2025, 2026}

\* the calls the callers of the parser may make next
ParserCalls ==
    {[op |-> "parseResume", args |-> [resumeText |-> t, currentYear |-> y]] :
        t \in ResumeTexts, y \in CurrentYears}
    \cup {[op |-> "extractEducation", args |-> [resumeText |-> t]] : t \in ResumeTexts}

InitParser ==
    /\ pc = "ready"
    /\ \E call \in ParserCalls : op = call.op /\ args = call.args
    /\ ret = None
    /\ lastIndex = FreshLastIndex

CallParseResume ==
    /\ pc = "ready"
    /\ op = "parseResume"
    /\ LET outcome == parseResume(args.resumeText, lastIndex, args.currentYear)
       IN  /\ ret' = IF outcome.threw
                     THEN [threw |-> TRUE, error |-> outcome.error]
                     ELSE [threw |-> FALSE, value |-> outcome.value]
           /\ lastIndex' = outcome.lastIndex
    /\ pc' = "done"
    /\ UNCHANGED <<op, args>>

CallExtractEducation ==
    /\ pc = "ready"
    /\ op = "extractEducation"
    /\ LET outcome == extractEducation(args.resumeText, lastIndex)
       IN  /\ ret' = outcome.education
           /\ lastIndex' = outcome.lastIndex
    /\ pc' = "done"
    /\ UNCHANGED <<op, args>>

\* the process goes on to its next call
NextCall ==
    /\ pc = "done"
    /\ \E call \in ParserCalls : op' = call.op /\ args' = call.args
    /\ pc' = "ready"
    /\ ret' = None
    /\ UNCHANGED lastIndex

NextParser == CallParseResume \/ CallExtractEducation \/ NextCall

SpecParser == InitParser /\ [][NextParser]_vars

(***************************************************************************)
(* Claims about the parser.                                                *)
(***************************************************************************)

\* C1: parseResume returns a ParsedResume and never throws, whatever the text;
\* for the empty text the skills, education and experience lists are empty,
\* totalYearsExperience is 0 and extractionScore is 0.5.
C1_ParseResumeNeverThrows ==
    (pc = "done" /\ op = "parseResume") =>
        /\ ~ret.threw
        /\ args.resumeText = <<>> =>
               /\ ret.value.skills = <<>>
               /\ ret.value.education = <<>>
               /\ ret.value.experience = <<>>
               /\ ret.value.totalYearsExperience = <<0, 1>>
               /\ ret.value.extractionScore = <<1, 2>>

\* C2: no call leaves state behind that changes the result of a later call:
\* whatever calls came before, extractEducation, the step of parseResume that
\* reads and writes EDUCATION_PATTERNS, returns for a text what it returns for
\* it in a process that has just loaded the module.
C2_EducationAsInFreshProcess ==
    (pc = "done" /\ op = "extractEducation") =>
        ret = extractEducation(args.resumeText, FreshLastIndex).education

(***************************************************************************)
(* The functions that turn scores into a ranking score, a recommendation,  *)
(* a narrative and a prediction, each called on its own.                   *)
(***************************************************************************)
\* the scores a call is made with: every overall fit score, and the cultural
\* fit indexes at and next to the values the functions compare them with
OverallFitScores == 0..MaxScore

CulturalFitIndexes == {0, 2, 7, 49, 50, 51, 74, 75, 76, MaxScore}

GapCounts == 0..MaxGaps

\* a skillGaps list of gapCount competencies
SkillGapsOf(gapCount) == Tuple([k \in 1..gapCount |-> <<"K", "u", "b", "e", "r", "n", "e", "t", "e", "s">>])

\* every integer index from below 0 to above MaxScore
NarrativeIndexes == (0 - MaxScore)..(2 * MaxScore)

\* the arguments a call of the function named f is made with
VerdictArgs(f) ==
    CASE f = "calculateRankingScore" ->
             [overallFit : OverallFitScores, culturalFit : CulturalFitIndexes,
              gapCount : GapCounts]
      [] f = "generateRecommendations" ->
             [overallFitScore : OverallFitScores,
              skillGaps : {SkillGapsOf(gapCount) : gapCount \in GapCounts},
              culturalFit : CulturalFitIndexes]
      [] f = "generateCulturalFitNarrative" ->
             [culturalFitIndex : NarrativeIndexes]
      [] f = "generateSuccessPrediction" ->
             [overallFitScore : OverallFitScores,
              culturalFitIndex : CulturalFitIndexes,
              yearsExperience : 0..MaxYears]

InitVerdict ==
    /\ pc = "ready"
    /\ op \in {"calculateRankingScore", "generateRecommendations",
               "generateCulturalFitNarrative", "generateSuccessPrediction"}
    /\ args \in VerdictArgs(op)
    /\ ret = None
    /\ lastIndex = [i \in 1..5 |-> 0]

CallCalculateRankingScore ==
    /\ pc = "ready"
    /\ op = "calculateRankingScore"
    /\ ret' = calculateRankingScore(args.overallFit, args.culturalFit, args.gapCount)
    /\ pc' = "done"
    /\ UNCHANGED <<op, args, lastIndex>>

CallGenerateRecommendations ==
    /\ pc = "ready"
    /\ op = "generateRecommendations"
    /\ ret' = generateRecommendations(args.overallFitScore, args.skillGaps,
                                      args.culturalFit)
    /\ pc' = "done"
    /\ UNCHANGED <<op, args, lastIndex>>

CallGenerateCulturalFitNarrative ==
    /\ pc = "ready"
    /\ op = "generateCulturalFitNarrative"
    /\ ret' = generateCulturalFitNarrative(args.culturalFitIndex)
    /\ pc' = "done"
    /\ UNCHANGED <<op, args, lastIndex>>

CallGenerateSuccessPrediction ==
    /\ pc = "ready"
    /\ op = "generateSuccessPrediction"
    /\ ret' = generateSuccessPrediction(args.overallFitScore, args.culturalFitIndex,
                                        args.yearsExperience)
    /\ pc' = "done"
    /\ UNCHANGED <<op, args, lastIndex>>

NextVerdict ==
    \/ CallCalculateRankingScore
    \/ CallGenerateRecommendations
    \/ CallGenerateCulturalFitNarrative
    \/ CallGenerateSuccessPrediction

SpecVerdict == InitVerdict /\ [][NextVerdict]_vars

(***************************************************************************)
(* Claims about the ranking score.                                         *)
(***************************************************************************)
RankingDone == pc = "done" /\ op = "calculateRankingScore"

\* a hundred times overallFit * 0.5 + culturalFit * 0.3 of the current call
FitHundredths == 50 * args.overallFit + 30 * args.culturalFit

\* a hundred times the gap component max(0, 1 - gapCount * 0.15) * 100 * 0.2
GapHundredths(gapCount) == 20 * Max(0, 100 - 15 * gapCount)

\* n / 100 rounded to the nearest integer, halves up
RoundHundredths(n) == (n + 50) \div 100

\* C11: the ranking score is round(overallFitScore * 0.5 + culturalFitIndex *
\* 0.3 + max(0, 1 - gapCount * 0.15) * 100 * 0.2); the gap component is 0 for
\* every gapCount >= 7; and for the same two scores one more gap never gives a
\* higher ranking score.
C11_RankingScoreFormula ==
    RankingDone =>
        /\ ret = RoundHundredths(FitHundredths + GapHundredths(args.gapCount))
        /\ args.gapCount >= 7 => ret = RoundHundredths(FitHundredths)
        /\ calculateRankingScore(args.overallFit, args.culturalFit,
                                 args.gapCount + 1) <= ret

\* seven gaps: 81 * 0.5 + 75 * 0.3 + 0 = 63
C11_Witness ==
    /\ RankingDone
    /\ args.overallFit = 81
    /\ args.culturalFit = 75
    /\ args.gapCount = 7
    /\ ret = 63

(***************************************************************************)
(* Claims about the recommendation.                                        *)
(***************************************************************************)
RecommendationDone == pc = "done" /\ op = "generateRecommendations"

\* the rows of the decision table, for the arguments of the current call
Row1 == args.overallFitScore > 80 /\ args.culturalFit > 75

Row2 == args.overallFitScore > 65 /\ Len(args.skillGaps) <= 2

Row3 == args.overallFitScore > 50

Row4 == Len(args.skillGaps) > 5

\* the decision table with the labels in labels: the text returned is the
\* label of the first row that holds, the last label when none does
FirstRowWins(labels) ==
    /\ ret \in {labels[k] : k \in 1..5}
    /\ ret = labels[1] <=> Row1
    /\ ret = labels[2] <=> ~Row1 /\ Row2
    /\ ret = labels[3] <=> ~Row1 /\ ~Row2 /\ Row3
    /\ ret = labels[4] <=> ~Row1 /\ ~Row2 /\ ~Row3 /\ Row4
    /\ ret = labels[5] <=> ~Row1 /\ ~Row2 /\ ~Row3 /\ ~Row4

\* the five labels written with a hyphen-minus between their two halves
HyphenLabels ==
    << "Highly Recommended - Schedule Interview",
       "Recommended - Consider for Technical Round",
       "Potential Fit - Request Additional Info",
       "Requires Training - Consider for Entry Level",
       "Not Recommended - Skill Gap Too Large" >>

\* the five labels written with an em dash (U+2014) between their two halves
EmDashLabels ==
    << "Highly Recommended U+2014 Schedule Interview",
       "Recommended U+2014 Consider for Technical Round",
       "Potential Fit U+2014 Request Additional Info",
       "Requires Training U+2014 Consider for Entry Level",
       "Not Recommended U+2014 Skill Gap Too Large" >>

\* C12 as amended: the recommendation is the label of the first row that
\* holds, top to bottom: (1) overallFitScore > 80 and culturalFitIndex > 75,
\* (2) overallFitScore > 65 and at most 2 gaps, (3) overallFitScore > 50,
\* (4) more than 5 gaps, (5) otherwise; and the text returned is one of the
\* five labels written with a hyphen-minus.
C12_FirstRowWinsHyphen == RecommendationDone => FirstRowWins(HyphenLabels)

\* row 4: a score of 50 with six gaps
C12_Witness ==
    /\ RecommendationDone
    /\ args.overallFitScore = 50
    /\ Len(args.skillGaps) = 6
    /\ args.culturalFit = 76
    /\ ret = "Requires Training - Consider for Entry Level"

\* C12 as stated: the same table, the text returned being one of the five
\* labels written with an em dash.
C12_FirstRowWinsEmDash == RecommendationDone => FirstRowWins(EmDashLabels)

(***************************************************************************)
(* Claims about the narrative.                                             *)
(***************************************************************************)
NarrativeDone == pc = "done" /\ op = "generateCulturalFitNarrative"

\* C16: generateCulturalFitNarrative returns High exactly for an index of 75 or
\* more, Medium exactly for an index from 50 to 74 and Low exactly for an
\* index below 50, for every integer index.
C16_NarrativeThresholds ==
    NarrativeDone =>
        /\ ret \in {"High", "Medium", "Low"}
        /\ ret = "High" <=> args.culturalFitIndex >= 75
        /\ ret = "Medium" <=> (50 <= args.culturalFitIndex /\ args.culturalFitIndex < 75)
        /\ ret = "Low" <=> args.culturalFitIndex < 50

\* the index 75, the least that is High
C16_Witness == NarrativeDone /\ args.culturalFitIndex = 75 /\ ret = "High"

(***************************************************************************)
(* Claims about the prediction.                                            *)
(***************************************************************************)
PredictionDone == pc = "done" /\ op = "generateSuccessPrediction"

\* ten times overallFit * 0.6 + culturalFit * 0.4 + min(years / 5, 1) * 20
FinalTenths(overallFit, culturalFit, years) ==
    6 * overallFit + 4 * culturalFit + Min(40 * years, 200)

\* the labels from worst to best
LabelRank(label) ==
    CASE label = "Unlikely" -> 0
      [] label = "Possible" -> 1
      [] label = "Likely" -> 2
      [] label = "Highly Likely" -> 3

\* the label a call is claimed to return: by where final lies
LabelOfTenths(tenths) ==
    IF tenths >= 850 THEN "Highly Likely"
    ELSE IF tenths >= 700 THEN "Likely"
    ELSE IF tenths >= 500 THEN "Possible"
    ELSE "Unlikely"

\* C17: with final = overallFit * 0.6 + culturalFit * 0.4 + min(years / 5, 1)
\* * 20, generateSuccessPrediction returns Highly Likely exactly when final >=
\* 85, Likely exactly when 70 <= final < 85, Possible exactly when 50 <= final
\* < 70 and Unlikely otherwise; from 5 years on the years make no difference;
\* and raising one argument by one never gives a worse label.
C17_PredictionThresholds ==
    PredictionDone =>
        /\ ret = LabelOfTenths(FinalTenths(args.overallFitScore,
                                           args.culturalFitIndex,
                                           args.yearsExperience))
        /\ args.yearsExperience >= 5 =>
               ret = generateSuccessPrediction(args.overallFitScore,
                                               args.culturalFitIndex, 5)
        /\ LabelRank(ret) <= LabelRank(generateSuccessPrediction(
               args.overallFitScore + 1, args.culturalFitIndex, args.yearsExperience))
        /\ LabelRank(ret) <= LabelRank(generateSuccessPrediction(
               args.overallFitScore, args.culturalFitIndex + 1, args.yearsExperience))
        /\ LabelRank(ret) <= LabelRank(generateSuccessPrediction(
               args.overallFitScore, args.culturalFitIndex, args.yearsExperience + 1))

(***************************************************************************)
(* rankCandidates called on a short batch.  args.candidates is the array   *)
(* of the caller that the call is passed; a ScoringResult is written with  *)
(* its rankingScore alone, the one field rankCandidates reads.             *)
(***************************************************************************)
CandidateIds == {"a", "b", "c"}

RankingScores == {50, 70}

CandidateSamples ==
    [id : CandidateIds, scoringResult : [rankingScore : RankingScores]]

InitRank ==
    /\ pc = "ready"
    /\ op = "rankCandidates"
    /\ args \in [candidates : SeqsUpTo(CandidateSamples, MaxCandidates)]
    /\ ret = None
    /\ lastIndex = [i \in 1..5 |-> 0]

CallRankCandidates ==
    /\ pc = "ready"
    /\ op = "rankCandidates"
    /\ args' = [candidates |-> rankCandidates(args.candidates).candidates]
    /\ ret' = rankCandidates(args.candidates).returned
    /\ pc' = "done"
    /\ UNCHANGED <<op, lastIndex>>

NextRank == CallRankCandidates

SpecRank == InitRank /\ [][NextRank]_vars

(***************************************************************************)
(* Claims about rankCandidates.                                            *)
(***************************************************************************)
\* a step that is a call of rankCandidates returning
RankReturns == pc = "ready" /\ op = "rankCandidates" /\ pc' = "done"

\* ranked holds the candidates of batch, each once, in an order p of the
\* positions of batch in which equal scores keep the order they have in batch
StablyOrdered(batch, ranked) ==
    /\ Len(ranked) = Len(batch)
    /\ \E p \in [1..Len(batch) -> 1..Len(batch)] :
           /\ \A i, j \in 1..Len(batch) : i # j => p[i] # p[j]
           /\ \A i \in 1..Len(batch) :
                  /\ ranked[i].id = batch[p[i]].id
                  /\ ranked[i].scoringResult = batch[p[i]].scoringResult
           /\ \A i, j \in 1..Len(batch) :
                  (i < j /\ ranked[i].scoringResult.rankingScore
                                = ranked[j].scoringResult.rankingScore)
                      => p[i] < p[j]

\* C13: rankCandidates returns the candidates of the batch ordered by
\* rankingScore, highest first; the rank of each is its position counted from
\* 1, so the ranks are 1..n; and candidates with the same rankingScore are in
\* the order they have in the batch passed.
C13_RankedStably ==
    [][RankReturns =>
          /\ StablyOrdered(args.candidates, ret')
          /\ \A i \in 1..Len(ret') : ret'[i].rank = i
          /\ \A i, j \in 1..Len(ret') :
                 i < j => ret'[i].scoringResult.rankingScore
                              >= ret'[j].scoringResult.rankingScore]_vars

\* three candidates returned, the two with score 50 behind the one with 70
C13_Witness ==
    /\ pc = "done"
    /\ op = "rankCandidates"
    /\ Len(ret) = 3
    /\ ret[1] = [id |-> "c", scoringResult |-> [rankingScore |-> 70], rank |-> 1]
    /\ ret[2] = [id |-> "b", scoringResult |-> [rankingScore |-> 50], rank |-> 2]
    /\ ret[3] = [id |-> "a", scoringResult |-> [rankingScore |-> 50], rank |-> 3]

\* C14: a call of rankCandidates leaves the array it was passed as it was: the
\* same elements in the same order.
C14_BatchLeftAsPassed ==
    [][RankReturns => args'.candidates = args.candidates]_vars

(***************************************************************************)
(* extractExperience called on short texts.                                *)
(***************************************************************************)
\* the text of scenario 2, on one line
Scenario2Text == <<"S", "e", "n", "i", "o", "r", " ", "S", "o", "f", "t", "w", "a", "r", "e", " ", "E", "n", "g", "i", "n", "e", "e", "r", " ", "a", "t", " ", "A", "c", "m", "e", " ", "C", "o", "r", "p", ",", " ", "2", "0", "1", "5", "-", "2", "0", "2", "0", ".", " ", "-", " ", "L", "e", "d", " ", "a", " ", "t", "e", "a", "m", " ", "o", "f", " ", "5", " ", "e", "n", "g", "i", "n", "e", "e", "r", "s", ".">>

RoleLines ==
    << Scenario2Text,
       <<"S", "o", "f", "t", "w", "a", "r", "e", " ", "E", "n", "g", "i", "n", "e", "e", "r", " ", "a", "t", " ", "A", "c", "m", "e", ",", " ", "2", "0", "1", "5", "-", "2", "0", "2", "0">>,
       <<"-", " ", "L", "e", "d", " ", "a", " ", "t", "e", "a", "m", " ", "o", "f", " ", "5", " ", "e", "n", "g", "i", "n", "e", "e", "r", "s", ".">>,
       <<"D", "e", "v", "e", "l", "o", "p", "e", "r", ",", " ", "2", "0", "1", "9", " ", "-", " ", "p", "r", "e", "s", "e", "n", "t">>,
       <<" ", "U+2022", " ">> \o <<"B", "u", "i", "l", "t", " ", "A", "P", "I", "s">>,
       <<"S", "k", "i", "l", "l", "s", ":", " ", "P", "y", "t", "h", "o", "n">>,
       <<"A", "n", "a", "l", "y", "s", "t", " ", "2", "0", "2", "0", "-", "2", "0", "1", "8">>,
       <<"M", "a", "n", "a", "g", "e", "r", " ", "a", "t", " ", "I", "n", "i", "t", "e", "c", "h">>,
       <<"*", " ", "L", "e", "a", "d", " ", "t", "h", "e", " ", "t", "e", "a", "m">> >>

\* the texts of at most MaxLines of the lines (the empty text among them)
RoleTexts ==
    {Join(Tuple([k \in 1..Len(picks) |-> RoleLines[picks[k]]]), <<"\n">>) :
        picks \in SeqsUpTo(1..Len(RoleLines), MaxLines)}

InitExperience ==
    /\ pc = "ready"
    /\ op = "extractExperience"
    /\ args \in [resumeText : RoleTexts, currentYear : CurrentYears]
    /\ ret = None
    /\ lastIndex = FreshLastIndex

CallExtractExperience ==
    /\ pc = "ready"
    /\ op = "extractExperience"
    /\ ret' = extractExperience(args.resumeText, args.currentYear)
    /\ pc' = "done"
    /\ UNCHANGED <<op, args, lastIndex>>

\* calculateYearsExperience called, as parseResume calls it, with the list
\* extractExperience has just returned
CallCalculateYearsExperience ==
    /\ pc = "done"
    /\ op = "extractExperience"
    /\ op' = "calculateYearsExperience"
    /\ args' = [experience |-> ret]
    /\ ret' = calculateYearsExperience(ret)
    /\ pc' = "done"
    /\ UNCHANGED lastIndex

NextExperience == CallExtractExperience \/ CallCalculateYearsExperience

SpecExperience == InitExperience /\ [][NextExperience]_vars

(***************************************************************************)
(* Claims about extractExperience.                                         *)
(***************************************************************************)
ExperienceDone == pc = "done" /\ op = "extractExperience"

\* C15: scenario 2: the one-line text "Senior Software Engineer at Acme Corp,
\* 2015-2020. - Led a team of 5 engineers." gives exactly one experience
\* record, whose job title contains "engineer" in any case, whose yearsInRole
\* is 5 and whose responsibilities are exactly "Led a team of 5 engineers.".
C15_Scenario2 ==
    (ExperienceDone /\ args.resumeText = Scenario2Text) =>
        /\ Len(ret) = 1
        /\ Includes(ToLowerCase(ret[1].jobTitle), <<"e", "n", "g", "i", "n", "e", "e", "r">>)
        /\ ret[1].yearsInRole = 5
        /\ ret[1].responsibilities = << <<"L", "e", "d", " ", "a", " ", "t", "e", "a", "m", " ", "o", "f", " ", "5", " ", "e", "n", "g", "i", "n", "e", "e", "r", "s", ".">> >>

\* the lines of the text of the current call that hold a job title
TitleLines ==
    Filter(SplitLines(args.resumeText),
           {k \in 1..Len(SplitLines(args.resumeText)) :
                JobTitleMatch(SplitLines(args.resumeText)[k]).matched})

\* C23: extractExperience emits one record for each line that holds a job
\* title, in the order of the lines: a title line emits the record that is
\* open and opens a new one, the record open at the end of the text is
\* emitted, and no record is emitted twice or lost.
C23_OneRecordPerTitleLine ==
    ExperienceDone =>
        /\ Len(ret) = Len(TitleLines)
        /\ \A k \in 1..Len(ret) :
               /\ ret[k].jobTitle = Trim(JobTitleMatch(TitleLines[k]).title)
               /\ ret[k].yearsInRole =
                      calculateYearsInRole(DurationMatch(TitleLines[k]), args.currentYear)

\* two title lines, two records in the order of the lines
C23_Witness ==
    /\ ExperienceDone
    /\ args.resumeText = <<"D", "e", "v", "e", "l", "o", "p", "e", "r", ",", " ", "2", "0", "1", "9", " ", "-", " ", "p", "r", "e", "s", "e", "n", "t">> \o <<"\n">> \o <<"M", "a", "n", "a", "g", "e", "r", " ", "a", "t", " ", "I", "n", "i", "t", "e", "c", "h">>
    /\ Len(ret) = 2
    /\ ret[1].jobTitle = <<"D", "e", "v", "e", "l", "o", "p", "e", "r">>
    /\ ret[2].jobTitle = <<"M", "a", "n", "a", "g", "e", "r">>

\* the years of a title line as the claim C24 states them
StatedYears(line, currentYear) ==
    LET d == DurationMatch(line)
        startYear == ParseInt(d.startYear)
        endYear == IF ToLowerCase(d.endYear) \in {<<"p", "r", "e", "s", "e", "n", "t">>, <<"c", "u", "r", "r", "e", "n", "t">>}
                   THEN currentYear ELSE ParseInt(d.endYear)
    IN  IF ~d.matched THEN 1
        ELSE IF endYear <= startYear THEN 1
        ELSE endYear - startYear

\* the sum of yearsInRole over a list of records
SumOfYears(experience) ==
    LET total[k \in 0..Len(experience)] ==
            IF k = 0 THEN 0 ELSE total[k - 1] + experience[k].yearsInRole
    IN  total[Len(experience)]

\* C24: every record extractExperience emits has yearsInRole >= 1: the end
\* year minus the start year, with present and current read as the current
\* year, 1 when the end is not after the start and 1 when the line has no
\* duration; totalYearsExperience is the sum of yearsInRole over the records
\* and so at least the number of records.
C24_YearsAtLeastOne ==
    /\ ExperienceDone =>
           \A k \in 1..Len(ret) :
               /\ ret[k].yearsInRole >= 1
               /\ ret[k].yearsInRole = StatedYears(TitleLines[k], args.currentYear)
    /\ (pc = "done" /\ op = "calculateYearsExperience") =>
           /\ ret = <<SumOfYears(args.experience), 1>>
           /\ SumOfYears(args.experience) >= Len(args.experience)

\* a role that ends before it starts and a role that runs to the present:
\* 1 + (2025 - 2019) years in total
C24_Witness ==
    /\ pc = "done"
    /\ op = "calculateYearsExperience"
    /\ Len(args.experience) = 2
    /\ args.experience[1].duration = <<"2", "0", "2", "0", "-", "2", "0", "1", "8">>
    /\ args.experience[1].yearsInRole = 1
    /\ args.experience[2].duration = <<"2", "0", "1", "9", " ", "-", " ", "p", "r", "e", "s", "e", "n", "t">>
    /\ args.experience[2].yearsInRole = 6
    /\ ret = <<7, 1>>

\* the numbers of the lines of the text of the current call that hold a job
\* title, in the order of the lines
TitleLineNumbers ==
    Filter([k \in 1..Len(SplitLines(args.resumeText)) |-> k],
           {k \in 1..Len(SplitLines(args.resumeText)) :
                JobTitleMatch(SplitLines(args.resumeText)[k]).matched})

\* the bullet lines from line first to line last, marker and white space removed
BulletsBetween(first, last) ==
    LET lines == SplitLines(args.resumeText)
        picked == Filter(lines, {j \in first..last : BulletMatch(lines[j])})
    IN  [j \in 1..Len(picked) |-> BulletText(picked[j])]

\* C30: a line with a bullet marker is stored, marker and white space removed,
\* in the record that is open after the title test of that same line: the
\* bullets before the first title line are dropped, a bullet line that holds a
\* job title closes the record before it and is the first responsibility of
\* the record it opens, and every stored responsibility is in one record only.
C30_BulletsOfTheOpenRecord ==
    ExperienceDone =>
        /\ Len(ret) = Len(TitleLineNumbers)
        /\ \A k \in 1..Len(ret) :
               ret[k].responsibilities =
                   BulletsBetween(TitleLineNumbers[k],
                                  IF k < Len(ret) THEN TitleLineNumbers[k + 1] - 1
                                  ELSE Len(SplitLines(args.resumeText)))

\* a bullet line with a job title behind a title line: it closes the first
\* record and is the first responsibility of the second
C30_Witness ==
    /\ ExperienceDone
    /\ args.resumeText = <<"D", "e", "v", "e", "l", "o", "p", "e", "r", ",", " ", "2", "0", "1", "9", " ", "-", " ", "p", "r", "e", "s", "e", "n", "t">> \o <<"\n">> \o <<"*", " ", "L", "e", "a", "d", " ", "t", "h", "e", " ", "t", "e", "a", "m">>
    /\ Len(ret) = 2
    /\ ret[1].responsibilities = <<>>
    /\ ret[2].jobTitle = <<"L", "e", "a", "d">>
    /\ ret[2].responsibilities = <<<<"L", "e", "a", "d", " ", "t", "h", "e", " ", "t", "e", "a", "m">>>>

(***************************************************************************)
(* Claims about extractEducation line by line.                             *)
(***************************************************************************)
\* the first pattern of EDUCATION_PATTERNS one of whose words is somewhere in
\* the line, 0 when there is none
FirstLevelPattern(line) ==
    LET holding == {i \in 1..Len(EDUCATION_PATTERNS) :
                       \E a \in 0..Len(line) :
                           FirstWordAt(line, EDUCATION_PATTERNS[i].alternatives, a) # 0}
    IN  IF holding = {} THEN 0 ELSE Least(holding)

\* the lines that hold a level keyword and a "<degree> in <field>" phrase
LinesWithDegree(lines) ==
    Filter(lines, {k \in 1..Len(lines) :
                      FirstLevelPattern(lines[k]) # 0 /\ DegreeMatch(lines[k]).matched})

\* C19: extractEducation treats every line on its own: each line that holds a
\* level keyword and a "<degree> in <field>" phrase gives exactly one record,
\* whatever the lines and the calls before it were (two Bachelor lines give two
\* records), and the level of the record is that of the first pattern, in the
\* order Bachelor, Master, PhD, Certification, High School, that matches the
\* line.
C19_OneRecordPerLine ==
    (pc = "done" /\ op = "extractEducation") =>
        /\ Len(ret) = Len(LinesWithDegree(SplitLines(args.resumeText)))
        /\ \A k \in 1..Len(ret) :
               ret[k].level =
                   EDUCATION_PATTERNS[FirstLevelPattern(
                       LinesWithDegree(SplitLines(args.resumeText))[k])].level

(***************************************************************************)
(* extractSkills called on short texts.                                    *)
(***************************************************************************)
SkillPhrases ==
    << <<"P", "y", "t", "h", "o", "n">>, <<"n", "o", "d", "e", ".", "j", "s">>, <<"n", "o", "d", "e", "x", "j", "s">>, <<"C", "+", "+">>, <<"C", "I", "/", "C", "D">>, <<"L", "e", "a", "d", "e", "r", "s", "h", "i", "p">>,
       <<"J", "A", "V", "A">>, <<"j", "a", "v", "a", "s", "c", "r", "i", "p", "t", "s">>, <<"U", "I", "/", "U", "X">> >>

\* the texts of at most MaxPhrases of the phrases, a space between two
SkillTexts ==
    {Join(Tuple([k \in 1..Len(picks) |-> SkillPhrases[picks[k]]]), <<" ">>) :
        picks \in SeqsUpTo(1..Len(SkillPhrases), MaxPhrases)}

InitSkills ==
    /\ pc = "ready"
    /\ op = "extractSkills"
    /\ args \in [resumeText : SkillTexts]
    /\ ret = None
    /\ lastIndex = FreshLastIndex

CallExtractSkills ==
    /\ pc = "ready"
    /\ op = "extractSkills"
    /\ ret' = extractSkills(args.resumeText)
    /\ pc' = "done"
    /\ UNCHANGED <<op, args, lastIndex>>

NextSkills == CallExtractSkills

SpecSkills == InitSkills /\ [][NextSkills]_vars

(***************************************************************************)
(* Claims about extractSkills.                                             *)
(***************************************************************************)
\* whether the keyword stands at offset a of the text letter for letter,
\* whatever the case, with no word character next to it on either side
LiteralWordAt(text, keyword, a) ==
    /\ a + Len(keyword) <= Len(text)
    /\ \A k \in 1..Len(keyword) : LowerChar(text[a + k]) = LowerChar(keyword[k])
    /\ a = 0 \/ text[a] \notin WordChars
    /\ a + Len(keyword) = Len(text) \/ text[a + Len(keyword) + 1] \notin WordChars

\* whether the skills returned hold the keyword
Reported(keyword) == \E k \in 1..Len(ret.value) : ret.value[k].skill = keyword

\* C20: for every keyword of the technical and the soft vocabulary, C++,
\* Node.js, CI/CD and UI/UX among them, extractSkills reports the keyword
\* exactly when the text holds it as a whole word, letter for letter in any
\* case, whatever the other keywords are.
C20_KeywordsLiteralWholeWord ==
    (pc = "done" /\ op = "extractSkills") =>
        /\ ~ret.threw
        /\ \A keywords \in {TECHNICAL_KEYWORDS, SOFT_KEYWORDS} :
           \A k \in 1..Len(keywords) :
               Reported(keywords[k])
                   <=> \E a \in 0..Len(args.resumeText) :
                           LiteralWordAt(args.resumeText, keywords[k], a)


\* the entry extractSkills pushes for the keyword at position k of keywords
PushedEntry(keywords, k) ==
    IF keywords = TECHNICAL_KEYWORDS
    THEN [skill |-> keywords[k], confidence |-> <<9, 10>>, category |-> "technical"]
    ELSE [skill |-> keywords[k], confidence |-> <<3, 4>>, category |-> "soft"]

\* the entries pushed for the keywords found in the text, in the order pushed:
\* the technical ones, then the soft ones
PushedFor(text) ==
    LET found(keywords) ==
            Filter([k \in 1..Len(keywords) |-> PushedEntry(keywords, k)],
                   {k \in 1..Len(keywords) :
                        KeywordTest(ToLowerCase(text), ToLowerCase(keywords[k]))})
    IN  found(TECHNICAL_KEYWORDS) \o found(SOFT_KEYWORDS)

\* C21: the list extractSkills returns holds no two entries whose labels are
\* equal in lower case, and the entry kept for a label, with its confidence and
\* category, is the first one pushed for that label.
C21_FirstEntryKept ==
    (pc = "done" /\ op = "extractSkills") =>
        /\ ~ret.threw
        /\ \A i, j \in 1..Len(ret.value) :
               i # j => ToLowerCase(ret.value[i].skill) # ToLowerCase(ret.value[j].skill)
        /\ \A i \in 1..Len(ret.value) :
               LET pushed == PushedFor(args.resumeText)
                   first == Least({k \in 1..Len(pushed) :
                                      ToLowerCase(pushed[k].skill)
                                          = ToLowerCase(ret.value[i].skill)})
               IN  ret.value[i] = pushed[first]

\* C22: the list extractSkills returns has at most 30 entries, sorted by
\* confidence from the highest; a technical keyword found has confidence 0.9
\* and category technical, a soft one 0.75 and soft, so every technical skill
\* stands before every soft one; and the list is the first 30 of the entries in
\* that order.
C22_TopThirtySorted ==
    (pc = "done" /\ op = "extractSkills") =>
        /\ ~ret.threw
        /\ Len(ret.value) <= 30
        /\ \A i, j \in 1..Len(ret.value) :
               i < j => /\ RLe(ret.value[j].confidence, ret.value[i].confidence)
                        /\ ~(ret.value[i].category = "soft"
                               /\ ret.value[j].category = "technical")
        /\ \A i \in 1..Len(ret.value) :
               \/ /\ \E k \in 1..Len(TECHNICAL_KEYWORDS) :
                         TECHNICAL_KEYWORDS[k] = ret.value[i].skill
                  /\ ret.value[i].confidence = <<9, 10>>
                  /\ ret.value[i].category = "technical"
               \/ /\ \E k \in 1..Len(SOFT_KEYWORDS) :
                         SOFT_KEYWORDS[k] = ret.value[i].skill
                  /\ ret.value[i].confidence = <<3, 4>>
                  /\ ret.value[i].category = "soft"
        /\ ret.value = SliceTo(PushedFor(args.resumeText), 30)


(***************************************************************************)
(* scoreCompetencies called on eight skills and any selection of eight     *)
(* competencies: six of them are matched with a score above 0.7, Go with a *)
(* score of exactly 0.7 (similarity 1, confidence 0.7), Excel with 0.68    *)
(* and Scala not at all.                                                   *)
(***************************************************************************)
StrengthSkills ==
    << [skill |-> <<"P", "y", "t", "h", "o", "n">>, confidence |-> <<9, 10>>, category |-> "technical"],
       [skill |-> <<"S", "e", "n", "i", "o", "r", " ", "J", "a", "v", "a">>, confidence |-> <<9, 10>>, category |-> "technical"],
       [skill |-> <<"G", "o">>, confidence |-> <<7, 10>>, category |-> "technical"],
       [skill |-> <<"R", "u", "s", "t">>, confidence |-> <<3, 4>>, category |-> "technical"],
       [skill |-> <<"A", "d", "v", "a", "n", "c", "e", "d", " ", "S", "Q", "L">>, confidence |-> <<9, 10>>, category |-> "technical"],
       [skill |-> <<"D", "o", "c", "k", "e", "r">>, confidence |-> <<1, 1>>, category |-> "technical"],
       [skill |-> <<"A", "W", "S">>, confidence |-> <<9, 10>>, category |-> "technical"],
       [skill |-> <<"M", "S", " ", "E", "x", "c", "e", "l">>, confidence |-> <<4, 5>>, category |-> "technical"] >>

StrengthCompetencies ==
    << <<"P", "y", "t", "h", "o", "n">>, <<"J", "a", "v", "a">>, <<"G", "o">>, <<"R", "u", "s", "t">>, <<"S", "Q", "L">>, <<"D", "o", "c", "k", "e", "r">>, <<"A", "W", "S">>, <<"E", "x", "c", "e", "l">>, <<"S", "c", "a", "l", "a">> >>

\* the competencies at the chosen positions, in the order of the list or in
\* the opposite order
Selection(chosen, backwards) ==
    LET picked == Filter(StrengthCompetencies, chosen)
    IN  IF backwards THEN [k \in 1..Len(picked) |-> picked[Len(picked) + 1 - k]]
        ELSE picked

InitStrengths ==
    /\ pc = "ready"
    /\ op = "scoreCompetencies"
    /\ \E chosen \in SUBSET (1..Len(StrengthCompetencies)), backwards \in BOOLEAN :
           args = [extractedSkills |-> StrengthSkills,
                   requiredCompetencies |-> Selection(chosen, backwards),
                   resumeText |-> <<>>]
    /\ ret = None
    /\ lastIndex = [i \in 1..5 |-> 0]

SpecStrengths == InitStrengths /\ [][NextScore]_vars

(***************************************************************************)
(* Claims about the strengths.                                             *)
(***************************************************************************)
\* the positions in the returned matches of the matches that are no gap and
\* have a score above 0.7
StrongMatches ==
    {k \in 1..Len(ret.competencyMatches) :
        /\ ~ret.competencyMatches[k].gap
        /\ RLt(<<7, 10>>, ret.competencyMatches[k].confidenceScore)}

\* the j-th smallest position of StrongMatches
StrongMatch(j) ==
    CHOOSE k \in StrongMatches : Cardinality({i \in StrongMatches : i < k}) = j - 1

\* C25: the strengths are, in the order of the matches sorted by confidence,
\* the first at most 5 matches that are no gap and have a confidenceScore
\* strictly above 0.7, each written "<extractedSkill> (<proficiencyLevel>)";
\* a match of exactly 0.7 and a gap are never a strength.
C25_StrengthsAboveSevenTenths ==
    ScoreDone =>
        /\ Len(ret.strengths) <= 5
        /\ Len(ret.strengths) = Min(5, Cardinality(StrongMatches))
        /\ \A j \in 1..Len(ret.strengths) :
               ret.strengths[j] =
                   ret.competencyMatches[StrongMatch(j)].extractedSkill \o <<" ", "(">>
                       \o LevelText(ret.competencyMatches[StrongMatch(j)].proficiencyLevel)
                       \o <<")">>
        /\ \A k \in 2..Len(ret.competencyMatches) :
               ~RLt(ret.competencyMatches[k - 1].confidenceScore,
                    ret.competencyMatches[k].confidenceScore)

\* all nine competencies required: six matches above 0.7, of which the five
\* best are the strengths, one of exactly 0.7 and a gap
C25_Witness ==
    /\ ScoreDone
    /\ args.requiredCompetencies = StrengthCompetencies
    /\ Cardinality(StrongMatches) = 6
    /\ \E k \in 1..Len(ret.competencyMatches) :
           /\ ret.competencyMatches[k].confidenceScore = <<7, 10>>
           /\ ~ret.competencyMatches[k].gap
    /\ \E k \in 1..Len(ret.competencyMatches) : ret.competencyMatches[k].gap
    /\ ret.strengths = << <<"D", "o", "c", "k", "e", "r", " ", "(", "B", "e", "g", "i", "n", "n", "e", "r", ")">>, <<"P", "y", "t", "h", "o", "n", " ", "(", "B", "e", "g", "i", "n", "n", "e", "r", ")">>, <<"A", "W", "S", " ", "(", "B", "e", "g", "i", "n", "n", "e", "r", ")">>,
                          <<"S", "e", "n", "i", "o", "r", " ", "J", "a", "v", "a", " ", "(", "E", "x", "p", "e", "r", "t", ")">>, <<"A", "d", "v", "a", "n", "c", "e", "d", " ", "S", "Q", "L", " ", "(", "A", "d", "v", "a", "n", "c", "e", "d", ")">> >>


(***************************************************************************)
(* inferProficiencyLevel called on labels written from a few words.        *)
(***************************************************************************)
LevelWords ==
    << <<"S", "e", "n", "i", "o", "r">>, <<"A", "D", "V", "A", "N", "C", "E", "D">>, <<"P", "r", "o", "f", "i", "c", "i", "e", "n", "t">>, <<"c", "o", "m", "p", "e", "t", "e", "n", "t">>, <<"J", "u", "n", "i", "o", "r">>, <<"b", "a", "s", "i", "c">>,
       <<"y", "e", "a", "r", "s">>, <<"5", "-", "1", "0">>, <<"2", "-", "5">>, <<"P", "y", "t", "h", "o", "n">>, <<"L", "e", "a", "d", "e", "r", "s", "h", "i", "p">> >>

\* the labels of at most MaxPhrases of the words, a space between two
LevelLabels ==
    {Join(Tuple([k \in 1..Len(picks) |-> LevelWords[picks[k]]]), <<" ">>) :
        picks \in SeqsUpTo(1..Len(LevelWords), MaxPhrases)}

InitLevel ==
    /\ pc = "ready"
    /\ op = "inferProficiencyLevel"
    /\ args \in [skill : LevelLabels]
    /\ ret = None
    /\ lastIndex = [i \in 1..5 |-> 0]

CallInferProficiencyLevel ==
    /\ pc = "ready"
    /\ op = "inferProficiencyLevel"
    /\ ret' = inferProficiencyLevel(args.skill)
    /\ pc' = "done"
    /\ UNCHANGED <<op, args, lastIndex>>

NextLevel == CallInferProficiencyLevel

SpecLevel == InitLevel /\ [][NextLevel]_vars

(***************************************************************************)
(* Claims about the proficiency level.                                     *)
(***************************************************************************)
\* the label, in lower case, has one of the keywords as a substring
Hits(label, keywords) ==
    \E k \in 1..Len(keywords) : Includes(ToLowerCase(label), keywords[k])

\* the level of the first of the four keyword sets that the label hits
FirstSetHit(label) ==
    IF Hits(label, PROFICIENCY_LEVELS_expert) THEN "Expert"
    ELSE IF Hits(label, PROFICIENCY_LEVELS_advanced) THEN "Advanced"
    ELSE IF Hits(label, PROFICIENCY_LEVELS_intermediate) THEN "Intermediate"
    ELSE IF Hits(label, PROFICIENCY_LEVELS_beginner) THEN "Beginner"
    ELSE "Beginner"

\* C26: inferProficiencyLevel returns the level of the first of the keyword
\* sets expert, advanced, intermediate, beginner that the label, in any case,
\* has a keyword of as a substring, and Beginner when it has none; each of
\* the four levels is returned for some label, and a label is Advanced
\* exactly when it hits the advanced set and no expert keyword.
C26_FirstKeywordSetWins ==
    /\ (pc = "done" /\ op = "inferProficiencyLevel") =>
           /\ ret = FirstSetHit(args.skill)
           /\ ret = "Advanced" <=>
                  /\ Hits(args.skill, PROFICIENCY_LEVELS_advanced)
                  /\ ~Hits(args.skill, PROFICIENCY_LEVELS_expert)
    /\ \A level \in {"Expert", "Advanced", "Intermediate", "Beginner"} :
           \E label \in LevelLabels : inferProficiencyLevel(label) = level

\* a label with an advanced keyword in capitals and no expert keyword
C26_Witness ==
    /\ pc = "done"
    /\ op = "inferProficiencyLevel"
    /\ args.skill = <<"A", "D", "V", "A", "N", "C", "E", "D", " ", "P", "y", "t", "h", "o", "n">>
    /\ ret = "Advanced"


(***************************************************************************)
(* scoreCompetencies called with up to MaxGaps competencies that no skill  *)
(* matches, on a text with none, three or all four of the cultural keyword *)
(* groups and with up to MaxSoftSkills soft skills.                        *)
(***************************************************************************)
UnmatchedCompetencies ==
    << <<"G", "o">>, <<"S", "Q", "L">>, <<"A", "W", "S">>, <<"R", "u", "s", "t">>, <<"J", "a", "v", "a">>, <<"S", "c", "a", "l", "a">>, <<"P", "e", "r", "l">>, <<"R", "u", "b", "y">>, <<"S", "w", "i", "f", "t">>, <<"K", "o", "t", "l", "i", "n">> >>

\* the phrases of the texts: none, "agile, collaborate, leadership" alone and
\* followed by "creativity and innovation"
FloorPicks == {<<>>, <<8>>, <<8, 5>>}

InitFloor ==
    /\ pc = "ready"
    /\ op = "scoreCompetencies"
    /\ \E picks \in FloorPicks :
       \E nTechnical \in 0..1 :
       \E nSoft \in 0..MaxSoftSkills :
       \E nGaps \in 0..Min(MaxGaps, Len(UnmatchedCompetencies)) :
       \E first \in {<<>>, <<TechnicalSkill.skill>>} :
           args = [extractedSkills |-> SkillList(nTechnical, nSoft),
                   requiredCompetencies |-> first \o SubSeq(UnmatchedCompetencies, 1, nGaps),
                   resumeText |-> JoinPhrases(picks)]
    /\ ret = None
    /\ lastIndex = [i \in 1..5 |-> 0]

SpecFloor == InitFloor /\ [][NextScore]_vars

(***************************************************************************)
(* Claims about the range of the cultural fit index.                       *)
(***************************************************************************)
\* C28: the culturalFitIndex scoreCompetencies returns lies between 50 and 98
\* (the cap of 100 is never reached), so generateCulturalFitNarrative never
\* calls it Low, and the rankingScore is at least 15.
C28_CulturalFitRange ==
    ScoreDone =>
        /\ ret.culturalFitIndex >= 50
        /\ ret.culturalFitIndex <= 98
        /\ generateCulturalFitNarrative(ret.culturalFitIndex) # "Low"
        /\ ret.rankingScore >= 15

\* seven competencies and no skill or keyword: index 50, ranking score 15
C28_Witness ==
    /\ ScoreDone
    /\ args.extractedSkills = <<>>
    /\ args.resumeText = <<>>
    /\ Len(args.requiredCompetencies) = 7
    /\ Len(ret.skillGaps) = 7
    /\ ret.overallFitScore = 0
    /\ ret.culturalFitIndex = 50
    /\ ret.rankingScore = 15


(***************************************************************************)
(* Claims about an empty list of required competencies.                    *)
(***************************************************************************)
\* C29: with no required competency scoreCompetencies returns no match, no
\* gap and no strength, an overallFitScore of 50 and, for every text and
\* skill list, the recommendation of the last row of the table, "Not
\* Recommended - Skill Gap Too Large", although there is no gap.
C29_NothingRequired ==
    (ScoreDone /\ args.requiredCompetencies = <<>>) =>
        /\ ret.competencyMatches = <<>>
        /\ ret.skillGaps = <<>>
        /\ ret.strengths = <<>>
        /\ ret.overallFitScore = 50
        /\ ret.recommendations = "Not Recommended - Skill Gap Too Large"

\* nothing required of a candidate with nine skills and a text with all four
\* keyword groups: cultural fit 98, and still not recommended
C29_Witness ==
    /\ CulturalDone
    /\ args.requiredCompetencies = <<>>
    /\ Len(args.extractedSkills) = 9
    /\ ret.culturalFitIndex = 98
    /\ ret.skillGaps = <<>>
    /\ ret.overallFitScore = 50
    /\ ret.recommendations = "Not Recommended - Skill Gap Too Large"


(***************************************************************************)
(* The route /api/screenCandidate called with a short resume, while the    *)
(* validation service answers, refuses or cannot be reached.               *)
(***************************************************************************)
\* the texts of extractSkills' calls, the empty text among them
ScreenResumes == SkillTexts

JdDatas ==
    { [given |-> FALSE],
      [given |-> TRUE],
      [given |-> TRUE, core_skills |-> <<>>],
      [given |-> TRUE, core_skills |-> <<<<"P", "y", "t", "h", "o", "n">>>>],
      [given |-> TRUE, core_skills |-> <<<<"P", "y", "t", "h", "o", "n">>, <<"R", "u", "s", "t">>>>] }

Analyses ==
    { EmptyAnalysis,
      [defined |-> {"competency_match", "summary", "recommendation"},
       competency_match |-> 80, summary |-> "Strong candidate",
       recommendation |-> "Schedule Interview"],
      [defined |-> {"competency_match"},
       competency_match |-> 40, summary |-> "", recommendation |-> ""] }

FetchOutcomes ==
    { [kind |-> "rejected", parse |-> "none", value |-> EmptyAnalysis],
      [kind |-> "notOk", parse |-> "none", value |-> EmptyAnalysis],
      [kind |-> "ok", parse |-> "noBraces", value |-> EmptyAnalysis],
      [kind |-> "ok", parse |-> "invalid", value |-> EmptyAnalysis] }
    \cup [kind : {"ok"}, parse : {"json", "embedded"}, value : Analyses]

InitScreen ==
    /\ pc = "ready"
    /\ op = "POST"
    /\ args \in [resume : ScreenResumes, jdData : JdDatas, fetched : FetchOutcomes,
                 currentYear : CurrentYears]
    /\ ret = None
    /\ lastIndex = FreshLastIndex

CallPOST ==
    /\ pc = "ready"
    /\ op = "POST"
    /\ ret' = POST(args.resume, args.jdData, args.fetched, lastIndex,
                   args.currentYear).response
    /\ lastIndex' = POST(args.resume, args.jdData, args.fetched, lastIndex,
                         args.currentYear).lastIndex
    /\ pc' = "done"
    /\ UNCHANGED <<op, args>>

NextScreen == CallPOST

SpecScreen == InitScreen /\ [][NextScreen]_vars

(***************************************************************************)
(* Claims about the route /api/screenCandidate.                            *)
(***************************************************************************)
\* the validation call of a request with a resume and a jdData fails: fetch
\* throws, the response is not ok, or the reply cannot be parsed
ValidationFails ==
    /\ args.resume # <<>>
    /\ args.jdData.given
    /\ \/ args.fetched.kind \in {"rejected", "notOk"}
       \/ args.fetched.parse \in {"noBraces", "invalid"}

\* the ScoringResult of the core for the request
CoreResult ==
    scoreCompetencies(parseResume(args.resume, FreshLastIndex, args.currentYear).value.skills,
                      requiredSkills(args.jdData), args.resume)

\* C27: when the validation call fails (response not ok, network error or
\* reply that cannot be parsed) the handler still answers with success, and
\* with the scores of the core alone: competency_match is the overallFitScore
\* of the core, summary and recommendation are its recommendation text.
C27_FallsBackToCoreScores ==
    (pc = "done" /\ op = "POST" /\ ValidationFails) =>
        /\ ret.status = 200
        /\ ret.success
        /\ ret.competency_match = CoreResult.overallFitScore
        /\ ret.summary = CoreResult.recommendations
        /\ ret.recommendation = CoreResult.recommendations

====
